---- MODULE Spec2Model ----
(***************************************************************************)
(* Requirement-to-meter compliance matching pipeline of                    *)
(* colinyqt/Compliance-Automation: the Compliance Comparator               *)
(* (src/old/comparison.py), the Candidate Ranker (src/databasingcode.py)   *)
(* and the Specification Store Adapter (src/comparison.py,                 *)
(* src/fast_meter_db.py, src/modular/database.py).                         *)
(*                                                                         *)
(* Text is a TLA+ string, read one character at a time with SubSeq.  The   *)
(* plus-minus sign U+00B1 is written "+-".  White space between JSON       *)
(* tokens is not modelled.  A float is the exact decimal [n, d] = n/10^d.  *)
(***************************************************************************)
EXTENDS Integers, Sequences, FiniteSets, TLC

(***************************************************************************)
(* Characters and text primitives (Python str methods and the re module).  *)
(***************************************************************************)
DigitChars == "0123456789"

UpperChars == "ABCDEFGHIJKLMNOPQRSTUVWXYZ"

LowerChars == "abcdefghijklmnopqrstuvwxyz"

\* s[i-1] in Python terms: the i-th character, as a string of length 1
Ch(s, i) == SubSeq(s, i, i)

\* 1-based index of character c in alphabet a, 0 when absent
IndexIn(a, c) == IF \E i \in 1..Len(a) : Ch(a, i) = c
                 THEN CHOOSE i \in 1..Len(a) : Ch(a, i) = c
                 ELSE 0

CharSet(a) == { Ch(a, i) : i \in 1..Len(a) }

DigitSet == CharSet(DigitChars)

UpperSet == CharSet(UpperChars)

LowerSet == CharSet(LowerChars)

\* the case mappings as tables
LowerTable == [c \in UpperSet |-> Ch(LowerChars, IndexIn(UpperChars, c))]

UpperTable == [c \in LowerSet |-> Ch(UpperChars, IndexIn(LowerChars, c))]

IsDigit(c) == c \in DigitSet

DigitVal(c) == IndexIn(DigitChars, c) - 1

IsUpperCh(c) == c \in UpperSet

IsLowerCh(c) == c \in LowerSet

IsAlpha(c) == IsUpperCh(c) \/ IsLowerCh(c)

IsWs(c) == c = " "

\* a character of the regex class [\d\.]
IsNumCh(c) == IsDigit(c) \/ c = "."

LowerCh(c) == IF IsUpperCh(c) THEN LowerTable[c] ELSE c

UpperCh(c) == IF IsLowerCh(c) THEN UpperTable[c] ELSE c

\* str.lower()
RECURSIVE Lower(_)
Lower(s) == IF s = "" THEN "" ELSE LowerCh(Head(s)) \o Lower(Tail(s))

\* str.upper()
RECURSIVE Upper(_)
Upper(s) == IF s = "" THEN "" ELSE UpperCh(Head(s)) \o Upper(Tail(s))

\* s[i-1:].startswith(p)
MatchAt(s, i, p) == i + Len(p) - 1 <= Len(s) /\ SubSeq(s, i, i + Len(p) - 1) = p

\* str.startswith
StartsWith(s, p) == MatchAt(s, 1, p)

\* str.endswith
EndsWith(s, p) == Len(p) <= Len(s) /\ MatchAt(s, Len(s) - Len(p) + 1, p)

\* the Python operator `p in s` on strings
Contains(s, p) == \E i \in 1..(Len(s) - Len(p) + 1) : MatchAt(s, i, p)

\* index after the run of white space that starts at i (regex \s*)
RECURSIVE SkipWs(_, _)
SkipWs(s, i) == IF i <= Len(s) /\ IsWs(Ch(s, i)) THEN SkipWs(s, i + 1) ELSE i

\* index after the maximal run of [\d\.] characters that starts at i
RECURSIVE SkipNum(_, _)
SkipNum(s, i) == IF i <= Len(s) /\ IsNumCh(Ch(s, i)) THEN SkipNum(s, i + 1) ELSE i

\* index after the maximal run of digits that starts at i (regex \d+ or \d*)
RECURSIVE SkipDigits(_, _)
SkipDigits(s, i) == IF i <= Len(s) /\ IsDigit(Ch(s, i)) THEN SkipDigits(s, i + 1) ELSE i

\* index after the maximal run of letters that starts at i (regex [A-Za-z]+)
RECURSIVE SkipAlpha(_, _)
SkipAlpha(s, i) == IF i <= Len(s) /\ IsAlpha(Ch(s, i)) THEN SkipAlpha(s, i + 1) ELSE i

\* str.strip() for the blank character
RECURSIVE Strip(_)
Strip(s) == IF s = "" THEN s
            ELSE IF IsWs(Head(s)) THEN Strip(Tail(s))
            ELSE IF IsWs(Ch(s, Len(s))) THEN Strip(SubSeq(s, 1, Len(s) - 1))
            ELSE s

\* number of occurrences of character c in s
RECURSIVE CountCh(_, _)
CountCh(s, c) == IF s = "" THEN 0
                 ELSE (IF Head(s) = c THEN 1 ELSE 0) + CountCh(Tail(s), c)

\* 1-based index of the first occurrence of character c at or after i, 0 when none
RECURSIVE FindCh(_, _, _)
FindCh(s, c, i) == IF i > Len(s) THEN 0
                   ELSE IF Ch(s, i) = c THEN i
                   ELSE FindCh(s, c, i + 1)

(***************************************************************************)
(* float() and str(float).  float() accepts digits with at most one dot    *)
(* and at least one digit; anything else raises ValueError (ok = FALSE).   *)
(***************************************************************************)
RECURSIVE Pow10(_)
Pow10(d) == IF d = 0 THEN 1 ELSE 10 * Pow10(d - 1)

\* value of the digits of s, dots skipped
RECURSIVE DigitsVal(_)
DigitsVal(s) == IF s = "" THEN 0
                ELSE IF Ch(s, Len(s)) = "." THEN DigitsVal(SubSeq(s, 1, Len(s) - 1))
                ELSE 10 * DigitsVal(SubSeq(s, 1, Len(s) - 1)) + DigitVal(Ch(s, Len(s)))

RECURSIVE Normalize(_)
Normalize(f) == IF f.d > 0 /\ f.n % 10 = 0
                THEN Normalize([n |-> f.n \div 10, d |-> f.d - 1])
                ELSE f

\* float() accepts s
IsFloatText(s) ==
    /\ \A i \in 1..Len(s) : IsNumCh(Ch(s, i))
    /\ CountCh(s, ".") <= 1
    /\ Len(s) - CountCh(s, ".") >= 1

FloatOf(f) == [ok |-> TRUE, n |-> f.n, d |-> f.d]

ParseFloat(s) ==
    IF ~IsFloatText(s) THEN [ok |-> FALSE, n |-> 0, d |-> 0]
    ELSE FloatOf(Normalize([n |-> DigitsVal(s),
                            d |-> IF CountCh(s, ".") = 0 THEN 0
                                  ELSE Len(s) - FindCh(s, ".", 1)]))

\* a <= b on floats
FloatLeq(a, b) == a.n * Pow10(b.d) <= b.n * Pow10(a.d)

RECURSIVE NatStr(_)
NatStr(n) == IF n < 10 THEN Ch(DigitChars, n + 1)
             ELSE NatStr(n \div 10) \o Ch(DigitChars, (n % 10) + 1)

RECURSIVE PadLeft(_, _)
PadLeft(s, w) == IF Len(s) >= w THEN s ELSE PadLeft("0" \o s, w)

\* str(float): the shortest repr, always with a fractional part ("1.0", "0.2")
FloatStr(f) ==
    IF f.d = 0 THEN NatStr(f.n) \o ".0"
    ELSE NatStr(f.n \div Pow10(f.d)) \o "." \o PadLeft(NatStr(f.n % Pow10(f.d)), f.d)

(***************************************************************************)
(* JSON values as json.loads builds them: a dict is a sequence of          *)
(* <<key, value>> pairs with distinct keys, in insertion order.            *)
(***************************************************************************)
JStr(s) == [k |-> "str", s |-> s]

JBool(b) == [k |-> "bool", b |-> b]

JNull == [k |-> "null"]

JArr(a) == [k |-> "arr", a |-> a]

JObj(o) == [k |-> "obj", o |-> o]

IsObj(v) == v.k = "obj"

IsArr(v) == v.k = "arr"

IsStr(v) == v.k = "str"

\* `key in d`
HasKey(d, key) == \E i \in 1..Len(d.o) : d.o[i][1] = key

\* d.get(key, default)
Get(d, key, default) ==
    IF HasKey(d, key) THEN d.o[CHOOSE i \in 1..Len(d.o) : d.o[i][1] = key][2] ELSE default

\* d[key] = v
Put(d, key, v) ==
    IF HasKey(d, key)
    THEN JObj([i \in 1..Len(d.o) |-> IF d.o[i][1] = key THEN <<key, v>> ELSE d.o[i]])
    ELSE JObj(Append(d.o, <<key, v>>))

\* bool(v)
Truthy(v) == CASE v.k = "bool" -> v.b
               [] v.k = "null" -> FALSE
               [] v.k = "str"  -> v.s # ""
               [] v.k = "arr"  -> v.a # <<>>
               [] v.k = "obj"  -> v.o # <<>>
               [] v.k = "num"  -> v.n # 0

\* hash(v) succeeds: lists and dicts are unhashable
Hashable(v) == v.k \in {"str", "bool", "null"}

\* the elements of a sequence, as a set
Range(q) == { q[i] : i \in 1..Len(q) }

\* every enumeration of a finite set without repetition: the orders list(set(...)) can give
Orderings(S) ==
    { f \in [1..Cardinality(S) -> S] : \A i, j \in 1..Cardinality(S) : f[i] = f[j] => i = j }

(***************************************************************************)
(* The two tolerant numeric matchers of the correction pass.               *)
(***************************************************************************)
\* re.search(r'class\s*([\d\.]+)\s*s?', s): g1 is group(1), g0 is group(0)
ClassMatchAt(s, i) ==
    /\ MatchAt(s, i, "class")
    /\ SkipNum(s, SkipWs(s, i + 5)) > SkipWs(s, i + 5)

\* the leftmost position at or after i where the pattern matches, 0 when none
RECURSIVE ClassFind(_, _)
ClassFind(s, i) == IF i > Len(s) THEN 0
                   ELSE IF ClassMatchAt(s, i) THEN i
                   ELSE ClassFind(s, i + 1)

\* the end of the match whose \s* after the number ends before w: the optional 's'
ClassEnd(s, w) == IF MatchAt(s, w, "s") THEN w + 1 ELSE w

\* the groups of the match that starts at i (0: no match)
ClassGroups(s, i) ==
    IF i = 0 THEN [found |-> FALSE, g1 |-> "", g0 |-> ""]
    ELSE [found |-> TRUE,
          g1 |-> SubSeq(s, SkipWs(s, i + 5), SkipNum(s, SkipWs(s, i + 5)) - 1),
          g0 |-> SubSeq(s, i, ClassEnd(s, SkipWs(s, SkipNum(s, SkipWs(s, i + 5)))) - 1)]

ClassSearch(s) == ClassGroups(s, ClassFind(s, 1))

\* re.search(r'±?(\d+\.?\d*)\s*%', s): the group starts at a digit, runs to the end of
\* its run of [\d\.] characters, holds at most one dot and is followed by \s*%
PctMatchAt(s, i) ==
    /\ IsDigit(Ch(s, i))
    /\ CountCh(SubSeq(s, i, SkipNum(s, i) - 1), ".") <= 1
    /\ MatchAt(s, SkipWs(s, SkipNum(s, i)), "%")

RECURSIVE PctFind(_, _)
PctFind(s, i) == IF i > Len(s) THEN 0
                 ELSE IF PctMatchAt(s, i) THEN i
                 ELSE PctFind(s, i + 1)

PctGroups(s, i) ==
    IF i = 0 THEN [found |-> FALSE, g1 |-> ""]
    ELSE [found |-> TRUE, g1 |-> SubSeq(s, i, SkipNum(s, i) - 1)]

PctSearch(s) == PctGroups(s, PctFind(s, 1))

SuperiorityPhrases ==
    {"more stringent than", "exceeds requirement", "better than", "higher accuracy", "surpasses"}

HasSuperiorityPhrase(justification) == \E p \in SuperiorityPhrases : Contains(justification, p)

(***************************************************************************)
(* The deterministic correction pass.                                      *)
(***************************************************************************)
\* 80% compliance threshold, as the fraction ThresholdNum / ThresholdDen
ThresholdNum == 8

ThresholdDen == 10

\* sum(1 for item in items if item.get("complies", False))
RECURSIVE CompliantCount(_)
CompliantCount(items) ==
    IF items = <<>> THEN 0
    ELSE (IF Truthy(Get(Head(items), "complies", JBool(FALSE))) THEN 1 ELSE 0)
         + CompliantCount(Tail(items))

\* (compliant / total) >= 0.8
MeetsThreshold(compliant, total) == compliant * ThresholdDen >= ThresholdNum * total

\* f"{item.get('requirement','')} ({item.get('spec_value','')})"
AreaEntry(item) ==
    JStr(Get(item, "requirement", JStr("")).s \o " (" \o Get(item, "spec_value", JStr("")).s \o ")")

ClassJustification(specG0, reqG0) ==
    "CORRECTED: Meter class " \o specG0 \o " is better than required " \o reqG0
        \o " (smaller class number = higher accuracy)."

PctJustification(specVal, reqVal) ==
    "CORRECTED: Meter accuracy +-" \o FloatStr(specVal) \o "% is better than required +-"
        \o FloatStr(reqVal) \o "% (smaller percentage = higher accuracy)."

PhraseJustification(current) == "CORRECTED: " \o current \o " (meter exceeds requirement)"

\* req, spec and justification of the loop body: the lower-cased texts of the item
ReqText(item) == Lower(Get(item, "requirement", JStr("")).s)

SpecText(item) == Lower(Get(item, "spec_value", JStr("")).s)

JustificationText(item) == Lower(Get(item, "justification", JStr("")).s)

\* original_complies
OriginalComplies(item) == Truthy(Get(item, "complies", JBool(FALSE)))

\* both class matches found and float() raising on one of the numbers
ClassRaises(rc, sc) == rc.found /\ sc.found /\ (~ParseFloat(rc.g1).ok \/ ~ParseFloat(sc.g1).ok)

\* the item is a dict whose requirement, spec_value and justification are strings and whose
\* class numbers float() accepts: otherwise the loop body raises
ItemRaises(item) ==
    \/ ~IsObj(item)
    \/ \E key \in {"requirement", "spec_value", "justification"} : ~IsStr(Get(item, key, JStr("")))
    \/ ClassRaises(ClassSearch(ReqText(item)), ClassSearch(SpecText(item)))

\* both matches found and spec_val <= req_val
NotWorse(r, s) == r.found /\ s.found /\ FloatLeq(ParseFloat(s.g1), ParseFloat(r.g1))

\* the condition of the class block: both texts carry a class, the meter's is smaller or
\* equal, and the item came in as non-compliant
ClassApplies(item) ==
    NotWorse(ClassSearch(ReqText(item)), ClassSearch(SpecText(item))) /\ ~OriginalComplies(item)

\* the percentage condition with the comparison turned round (req_val <= spec_val)
PctAppliesReversed(item) ==
    NotWorse(PctSearch(SpecText(item)), PctSearch(ReqText(item))) /\ ~OriginalComplies(item)

\* the condition of the percentage block
PctApplies(item) ==
    NotWorse(PctSearch(ReqText(item)), PctSearch(SpecText(item))) /\ ~OriginalComplies(item)

\* the condition of the justification-phrase block
PhraseApplies(item) == HasSuperiorityPhrase(JustificationText(item)) /\ ~OriginalComplies(item)

\* a correction that flips complies and keeps the justification as it was
CorrectedSilently(item, text) == Put(item, "complies", JBool(TRUE))

\* item["complies"] = True; item["justification"] = text
Corrected(item, text) == Put(Put(item, "complies", JBool(TRUE)), "justification", JStr(text))

\* the three blocks of the loop body, each deciding on the item as it came in (orig) and
\* writing to the item as the blocks before left it (item)
ClassBlock(item, orig) ==
    IF ClassApplies(orig)
    THEN Corrected(item, ClassJustification(ClassSearch(SpecText(orig)).g0,
                                            ClassSearch(ReqText(orig)).g0))
    ELSE item

PctBlock(item, orig) ==
    IF PctApplies(orig)
    THEN Corrected(item, PctJustification(ParseFloat(PctSearch(SpecText(orig)).g1),
                                          ParseFloat(PctSearch(ReqText(orig)).g1)))
    ELSE item

PhraseBlock(item, orig) ==
    IF PhraseApplies(orig)
    THEN Corrected(item, PhraseJustification(Get(item, "justification", JStr("")).s))
    ELSE item

\* one iteration of the loop: the item as the three blocks leave it
CorrectItem(item) == PhraseBlock(PctBlock(ClassBlock(item, item), item), item)

\* what one iteration appends to exceeding_areas: one entry per block that applied
ItemAreas(item) ==
    (IF ClassApplies(item) THEN <<AreaEntry(item)>> ELSE <<>>)
    \o (IF PctApplies(item) THEN <<AreaEntry(item)>> ELSE <<>>)
    \o (IF PhraseApplies(item) THEN <<AreaEntry(item)>> ELSE <<>>)

RECURSIVE Flatten(_)
Flatten(lists) == IF lists = <<>> THEN <<>> ELSE Head(lists) \o Flatten(Tail(lists))

\* iterating result.get("compliance_analysis", []): a list gives its items, an empty string
\* or dict gives nothing, anything else makes the loop raise
AnalysisItems(result) ==
    IF IsArr(Get(result, "compliance_analysis", JArr(<<>>)))
    THEN Get(result, "compliance_analysis", JArr(<<>>)).a
    ELSE <<>>

AnalysisRaises(result) ==
    /\ ~IsArr(Get(result, "compliance_analysis", JArr(<<>>)))
    /\ \/ Get(result, "compliance_analysis", JArr(<<>>)).k \in {"null", "bool"}
       \/ Truthy(Get(result, "compliance_analysis", JArr(<<>>)))

\* the loop raises (the caller's except turns that into an error result)
LoopRaises(result) ==
    \/ ~IsObj(result)
    \/ AnalysisRaises(result)
    \/ \E i \in 1..Len(AnalysisItems(result)) : ItemRaises(AnalysisItems(result)[i])

\* the `if corrected_count > 0` block, given the items and the exceeding_areas the loop
\* left: the results it can give, one per order list(set(...)) can give the combined
\* areas; the report is returned unchanged when nothing was corrected
Recompute(result, corrected, exceeding, existing) ==
    IF exceeding = <<>> THEN [raises |-> FALSE, results |-> {result}]
    ELSE IF ~IsArr(existing) \/ \E i \in 1..Len(existing.a) : ~Hashable(existing.a[i])
    THEN [raises |-> TRUE, results |-> {}]
    ELSE [raises |-> FALSE,
          results |->
            { Put(Put(Put(result, "compliance_analysis", JArr(corrected)),
                      "areas_exceeding_requirements", JArr(order)),
                  "overall_compliance",
                  JBool(IF Len(corrected) > 0
                        THEN MeetsThreshold(CompliantCount(corrected), Len(corrected))
                        ELSE FALSE))
              : order \in Orderings(Range(existing.a \o exceeding)) }]

\* the loop over the items, then the recomputation
CorrectionLoop(result, items) ==
    Recompute(result,
              [i \in 1..Len(items) |-> CorrectItem(items[i])],
              Flatten([i \in 1..Len(items) |-> ItemAreas(items[i])]),
              Get(result, "areas_exceeding_requirements", JArr(<<>>)))

\* _post_process_compliance_logic: whether it raises, and otherwise the results it can return
PostProcess(result) ==
    IF LoopRaises(result) THEN [raises |-> TRUE, results |-> {}]
    ELSE CorrectionLoop(result, AnalysisItems(result))

(***************************************************************************)
(* A reasoning-service response is a sequence of lexical tokens [t, v]:    *)
(* the punctuation "{" "}" "[" "]" "," ":", a double-quoted string "str",  *)
(* a single-quoted string "sq", a bare word "word" (true, True, an         *)
(* unquoted key), an integer "num", and "prose" for any other text free of *)
(* braces, brackets and quotes (a sentence, a markdown fence).             *)
(***************************************************************************)
Tok(t, v) == [t |-> t, v |-> v]

P(t) == Tok(t, "")

TStr(s) == Tok("str", s)

TWord(w) == Tok("word", w)

TNum(n) == Tok("num", n)

TProse(s) == Tok("prose", s)

JNum(n) == [k |-> "num", n |-> n]

\* the length of a token in characters (white space between tokens not counted)
TokLen(tk) == IF tk.t \in {"str", "sq"} THEN Len(tk.v) + 2
              ELSE IF tk.t \in {"word", "num", "prose"} THEN Len(tk.v)
              ELSE 1

RECURSIVE TextLen(_)
TextLen(ts) == IF ts = <<>> THEN 0 ELSE TokLen(Head(ts)) + TextLen(Tail(ts))

IsBrace(tk) == tk.t \in {"{", "}"}

\* int literal of a num token, with an optional leading minus sign
NumVal(v) == IF Len(v) > 0 /\ Head(v) = "-" THEN 0 - DigitsVal(Tail(v)) ELSE DigitsVal(v)

(***************************************************************************)
(* json.loads on tokens: strict JSON, so a bare word other than true,      *)
(* false and null, a single-quoted string, prose or a trailing comma is a  *)
(* JSONDecodeError (ok = FALSE), and so is text after the value.           *)
(***************************************************************************)
ParseFail == [ok |-> FALSE, v |-> JNull, i |-> 0]

RECURSIVE ParseValue(_, _)
RECURSIVE ParseMembers(_, _, _)
RECURSIVE ParseElements(_, _, _)
RECURSIVE AfterMember(_, _, _, _)
RECURSIVE AfterElement(_, _, _)

ParseValue(ts, i) ==
    IF i > Len(ts) THEN ParseFail
    ELSE LET tk == ts[i]
         IN  CASE tk.t = "str" -> [ok |-> TRUE, v |-> JStr(tk.v), i |-> i + 1]
               [] tk.t = "num" -> [ok |-> TRUE, v |-> JNum(NumVal(tk.v)), i |-> i + 1]
               [] tk.t = "word" ->
                    IF tk.v = "true" THEN [ok |-> TRUE, v |-> JBool(TRUE), i |-> i + 1]
                    ELSE IF tk.v = "false" THEN [ok |-> TRUE, v |-> JBool(FALSE), i |-> i + 1]
                    ELSE IF tk.v = "null" THEN [ok |-> TRUE, v |-> JNull, i |-> i + 1]
                    ELSE ParseFail
               [] tk.t = "{" ->
                    IF i + 1 <= Len(ts) /\ ts[i + 1].t = "}"
                    THEN [ok |-> TRUE, v |-> JObj(<<>>), i |-> i + 2]
                    ELSE ParseMembers(ts, i + 1, JObj(<<>>))
               [] tk.t = "[" ->
                    IF i + 1 <= Len(ts) /\ ts[i + 1].t = "]"
                    THEN [ok |-> TRUE, v |-> JArr(<<>>), i |-> i + 2]
                    ELSE ParseElements(ts, i + 1, <<>>)
               [] OTHER -> ParseFail

\* "key": value pairs up to the closing brace; a repeated key keeps its last value
ParseMembers(ts, i, acc) ==
    IF ~(i + 1 <= Len(ts) /\ ts[i].t = "str" /\ ts[i + 1].t = ":") THEN ParseFail
    ELSE AfterMember(ts, ts[i].v, acc, ParseValue(ts, i + 2))

\* what follows the member value r: a comma and more members, or the closing brace
AfterMember(ts, key, acc, r) ==
    IF ~r.ok \/ r.i > Len(ts) THEN ParseFail
    ELSE IF ts[r.i].t = "," THEN ParseMembers(ts, r.i + 1, Put(acc, key, r.v))
    ELSE IF ts[r.i].t = "}" THEN [ok |-> TRUE, v |-> Put(acc, key, r.v), i |-> r.i + 1]
    ELSE ParseFail

ParseElements(ts, i, acc) == AfterElement(ts, acc, ParseValue(ts, i))

\* what follows the element r: a comma and more elements, or the closing bracket
AfterElement(ts, acc, r) ==
    IF ~r.ok \/ r.i > Len(ts) THEN ParseFail
    ELSE IF ts[r.i].t = "," THEN ParseElements(ts, r.i + 1, Append(acc, r.v))
    ELSE IF ts[r.i].t = "]" THEN [ok |-> TRUE, v |-> JArr(Append(acc, r.v)), i |-> r.i + 1]
    ELSE ParseFail

\* the value r when it spans all n tokens
WholeText(r, n) == IF r.ok /\ r.i = n + 1 THEN [ok |-> TRUE, v |-> r.v]
                   ELSE [ok |-> FALSE, v |-> JNull]

JsonLoads(ts) == WholeText(ParseValue(ts, 1), Len(ts))

(***************************************************************************)
(* _extract_and_repair_json: brace blocks longest first, aggressive        *)
(* cleanup, manual field extraction, flagged fallback.  Braces, brackets   *)
(* and quotes inside string values are not modelled.                       *)
(***************************************************************************)
\* index of the first brace token at or after j, Len(ts) + 1 when none
RECURSIVE NextBrace(_, _)
NextBrace(ts, j) == IF j > Len(ts) \/ IsBrace(ts[j]) THEN j ELSE NextBrace(ts, j + 1)

\* token c is a closing brace
ClosesAt(ts, c) == c <= Len(ts) /\ ts[c].t = "}"

\* the greedy repetition (?:[^{}]|(?:\{[^{}]*\}))* from j: index of the first token it cannot take
RECURSIVE Consume(_, _)
Consume(ts, j) ==
    IF j > Len(ts) THEN j
    ELSE IF ~IsBrace(ts[j]) THEN Consume(ts, j + 1)
    ELSE IF ts[j].t = "{" /\ ClosesAt(ts, NextBrace(ts, j + 1))
         THEN Consume(ts, NextBrace(ts, j + 1) + 1)
    ELSE j

\* index of the closing brace of the match of the brace pattern that starts at i, 0 when none
BlockEnd(ts, i) == IF ClosesAt(ts, Consume(ts, i + 1)) THEN Consume(ts, i + 1) ELSE 0

\* json_pattern.findall(text): the non-overlapping matches, left to right from token i
RECURSIVE FindBlocks(_, _)
RECURSIVE BlockFrom(_, _, _)
FindBlocks(ts, i) ==
    IF i > Len(ts) THEN <<>>
    ELSE IF ts[i].t = "{" THEN BlockFrom(ts, i, BlockEnd(ts, i))
    ELSE FindBlocks(ts, i + 1)

\* the match from i to e when there is one (e > 0), and the matches after it
BlockFrom(ts, i, e) ==
    IF e > 0 THEN <<SubSeq(ts, i, e)>> \o FindBlocks(ts, e + 1) ELSE FindBlocks(ts, i + 1)

\* stable insertion of block b into a list sorted by length, longest first
RECURSIVE InsertByLen(_, _)
InsertByLen(sorted, b) ==
    IF sorted = <<>> THEN <<b>>
    ELSE IF TextLen(Head(sorted)) >= TextLen(b)
         THEN <<Head(sorted)>> \o InsertByLen(Tail(sorted), b)
    ELSE <<b>> \o sorted

\* matches.sort(key=len, reverse=True)
RECURSIVE SortByLenDesc(_, _)
SortByLenDesc(blocks, acc) ==
    IF blocks = <<>> THEN acc ELSE SortByLenDesc(Tail(blocks), InsertByLen(acc, Head(blocks)))

\* the first block, longest first, that json.loads accepts
RECURSIVE FirstParsable(_)
RECURSIVE ParsedOr(_, _)
FirstParsable(blocks) ==
    IF blocks = <<>> THEN [ok |-> FALSE, v |-> JNull]
    ELSE ParsedOr(JsonLoads(Head(blocks)), Tail(blocks))

ParsedOr(r, rest) == IF r.ok THEN r ELSE FirstParsable(rest)

RegexStage(ts) == FirstParsable(SortByLenDesc(FindBlocks(ts, 1), <<>>))

\* index of the first token of type t at or after i, 0 when none
RECURSIVE FirstTok(_, _, _)
FirstTok(ts, t, i) == IF i > Len(ts) THEN 0
                      ELSE IF ts[i].t = t THEN i
                      ELSE FirstTok(ts, t, i + 1)

\* index of the last token of type t at or before i, 0 when none
RECURSIVE LastTok(_, _, _)
LastTok(ts, t, i) == IF i < 1 THEN 0
                     ELSE IF ts[i].t = t THEN i
                     ELSE LastTok(ts, t, i - 1)

\* text[start:] and text[:end + 1] of the cleanup, each applied only when the brace exists
TrimFrom(ts, i) == IF i > 0 THEN SubSeq(ts, i, Len(ts)) ELSE ts

TrimTo(ts, i) == IF i > 0 THEN SubSeq(ts, 1, i) ELSE ts

\* text from the first '{' to the last '}'
TrimToBraces(ts) ==
    TrimTo(TrimFrom(ts, FirstTok(ts, "{", 1)),
           LastTok(TrimFrom(ts, FirstTok(ts, "{", 1)), "}",
                   Len(TrimFrom(ts, FirstTok(ts, "{", 1)))))

\* the substitutions on one token, given its neighbours: quote an unquoted key, turn single
\* quotes into double quotes, lower-case True / False after a colon
RepairTok(ts, i) ==
    IF /\ ts[i].t = "word" /\ i > 1 /\ ts[i - 1].t \in {"{", ","}
       /\ i < Len(ts) /\ ts[i + 1].t = ":"
    THEN TStr(ts[i].v)
    ELSE IF ts[i].t = "sq" THEN TStr(ts[i].v)
    ELSE IF ts[i].t = "word" /\ i > 1 /\ ts[i - 1].t = ":" /\ ts[i].v = "True" THEN TWord("true")
    ELSE IF ts[i].t = "word" /\ i > 1 /\ ts[i - 1].t = ":" /\ ts[i].v = "False" THEN TWord("false")
    ELSE ts[i]

RepairAll(ts) == [i \in 1..Len(ts) |-> RepairTok(ts, i)]

\* remove the comma in front of a closing brace or bracket
RECURSIVE DropTrailingCommas(_)
DropTrailingCommas(ts) ==
    IF ts = <<>> THEN <<>>
    ELSE IF Head(ts).t = "," /\ Len(ts) > 1 /\ ts[2].t \in {"}", "]"}
         THEN DropTrailingCommas(Tail(ts))
    ELSE <<Head(ts)>> \o DropTrailingCommas(Tail(ts))

CleanText(ts) == DropTrailingCommas(RepairAll(TrimToBraces(ts)))

CleanupStage(ts) == JsonLoads(CleanText(ts))

\* re.search(r'"compliance_analysis"\s*:\s*\[(.*?)\]', text) matches at token i
AnalysisAt(ts, i) ==
    /\ i + 2 <= Len(ts)
    /\ ts[i] = TStr("compliance_analysis") /\ ts[i + 1].t = ":" /\ ts[i + 2].t = "["
    /\ FirstTok(ts, "]", i + 3) > 0

\* the leftmost match at or after i, 0 when none
RECURSIVE AnalysisFind(_, _)
AnalysisFind(ts, i) == IF i > Len(ts) THEN 0
                       ELSE IF AnalysisAt(ts, i) THEN i
                       ELSE AnalysisFind(ts, i + 1)

\* the tokens of group(1) of the match at i: up to the first ']'
AnalysisText(ts, i) == SubSeq(ts, i + 3, FirstTok(ts, "]", i + 3) - 1)

\* re.compile(r'{(.*?)}').findall: from each '{' to the next '}'
RECURSIVE ItemTexts(_, _)
RECURSIVE ItemTextFrom(_, _, _)
ItemTexts(ts, i) ==
    IF i > Len(ts) THEN <<>>
    ELSE IF ts[i].t = "{" THEN ItemTextFrom(ts, i, FirstTok(ts, "}", i + 1))
    ELSE ItemTexts(ts, i + 1)

ItemTextFrom(ts, i, c) ==
    IF c > 0 THEN <<SubSeq(ts, i + 1, c - 1)>> \o ItemTexts(ts, c + 1) ELSE ItemTexts(ts, i + 1)

\* re.search(r'"<key>"\s*:\s*"([^"]*)"', item_text) matches at token j
StrFieldAt(it, j, key) ==
    j + 2 <= Len(it) /\ it[j] = TStr(key) /\ it[j + 1].t = ":" /\ it[j + 2].t = "str"

HasStrField(it, key) == \E j \in 1..Len(it) : StrFieldAt(it, j, key)

StrField(it, key) ==
    it[(CHOOSE j \in 1..Len(it) :
            StrFieldAt(it, j, key) /\ \A h \in 1..(j - 1) : ~StrFieldAt(it, h, key)) + 2].v

\* re.search(r'"complies"\s*:\s*(true|false)', item_text.lower()) matches at token j
CompliesAt(it, j) ==
    /\ j + 2 <= Len(it)
    /\ it[j].t = "str" /\ Lower(it[j].v) = "complies" /\ it[j + 1].t = ":"
    /\ it[j + 2].t = "word"
    /\ (StartsWith(Lower(it[j + 2].v), "true") \/ StartsWith(Lower(it[j + 2].v), "false"))

HasComplies(it) == \E j \in 1..Len(it) : CompliesAt(it, j)

CompliesField(it) ==
    StartsWith(Lower(it[(CHOOSE j \in 1..Len(it) :
            CompliesAt(it, j) /\ \A h \in 1..(j - 1) : ~CompliesAt(it, h)) + 2].v), "true")

\* the dict the manual stage builds from one item text
ManualItem(it) ==
    JObj((IF HasStrField(it, "requirement")
             THEN <<<<"requirement", JStr(StrField(it, "requirement"))>>>> ELSE <<>>)
         \o (IF HasStrField(it, "spec_value")
             THEN <<<<"spec_value", JStr(StrField(it, "spec_value"))>>>> ELSE <<>>)
         \o (IF HasComplies(it) THEN <<<<"complies", JBool(CompliesField(it))>>>> ELSE <<>>)
         \o (IF HasStrField(it, "justification")
             THEN <<<<"justification", JStr(StrField(it, "justification"))>>>> ELSE <<>>))

\* the dicts of the item texts that hold a requirement
RECURSIVE KeptItems(_)
KeptItems(texts) ==
    IF texts = <<>> THEN <<>>
    ELSE (IF HasStrField(Head(texts), "requirement") THEN <<ManualItem(Head(texts))>> ELSE <<>>)
         \o KeptItems(Tail(texts))

\* the items the manual stage keeps
ManualItems(ts) ==
    IF AnalysisFind(ts, 1) > 0
    THEN KeptItems(ItemTexts(AnalysisText(ts, AnalysisFind(ts, 1)), 1))
    ELSE <<>>

CouldNotParse == "Could not parse AI response due to JSON formatting errors"

FallbackResponse ==
    JObj(<< <<"compliance_analysis", JArr(<<>>)>>,
            <<"overall_compliance", JBool(FALSE)>>,
            <<"areas_exceeding_requirements", JArr(<<>>)>>,
            <<"potential_issues", JArr(<<JStr(CouldNotParse)>>)>> >>)

\* the last two stages: the manually extracted items when there are any, else the flagged
\* empty report
ManualOrFallback(items) ==
    IF items # <<>>
    THEN JObj(<< <<"compliance_analysis", JArr(items)>>,
                 <<"overall_compliance", JBool(FALSE)>> >>)
    ELSE FallbackResponse

\* the cleanup stage's value r when it parsed, else the later stages
CleanupOr(ts, r) == IF r.ok THEN r.v ELSE ManualOrFallback(ManualItems(ts))

\* the regex stage's value r when a block parsed, else the later stages
RegexOr(ts, r) == IF r.ok THEN r.v ELSE CleanupOr(ts, CleanupStage(ts))

ExtractAndRepairJson(ts) == RegexOr(ts, RegexStage(ts))

(***************************************************************************)
(* The reasoning service.  What it holds about requirement i is the raw    *)
(* verdict verdicts[i]; a response renders the verdicts of the             *)
(* requirements of one call in one of the formats below.                   *)
(***************************************************************************)
\* the ComplianceItem the service states for a requirement
RawItem(req, vd) ==
    JObj(<< <<"requirement", JStr(req)>>,
            <<"spec_value", JStr(vd.spec_value)>>,
            <<"complies", JBool(vd.complies)>>,
            <<"justification", JStr(vd.justification)>> >>)

\* the report the prompt demands ("REQUIRED JSON OUTPUT")
RawReport(items, overall) ==
    JObj(<< <<"compliance_analysis", JArr(items)>>,
            <<"overall_compliance", JBool(overall)>>,
            <<"areas_exceeding_requirements", JArr(<<>>)>>,
            <<"potential_issues", JArr(<<>>)>> >>)

\* a key, a string and a boolean in a writing style: "json", "python" (single quotes,
\* True / False) or "bare" (unquoted keys)
KeyTok(key, style) == IF style = "python" THEN Tok("sq", key)
                      ELSE IF style = "bare" THEN TWord(key)
                      ELSE TStr(key)

StrTok(str, style) == IF style = "python" THEN Tok("sq", str) ELSE TStr(str)

BoolTok(b, style) == IF style = "python" THEN TWord(IF b THEN "True" ELSE "False")
                     ELSE TWord(IF b THEN "true" ELSE "false")

RECURSIVE Render(_, _)
RECURSIVE RenderMembers(_, _)
RECURSIVE RenderElements(_, _, _)

\* the tokens of a JSON value; sep is put between the elements of a list
Render(v, style) ==
    CASE v.k = "str"  -> <<StrTok(v.s, style)>>
      [] v.k = "bool" -> <<BoolTok(v.b, style)>>
      [] v.k = "null" -> <<TWord("null")>>
      [] v.k = "num"  -> <<TNum(NatStr(v.n))>>
      [] v.k = "arr"  -> <<P("[")>> \o RenderElements(v.a, style, <<P(",")>>) \o <<P("]")>>
      [] v.k = "obj"  -> <<P("{")>> \o RenderMembers(v.o, style) \o <<P("}")>>

RenderMembers(o, style) ==
    IF o = <<>> THEN <<>>
    ELSE <<KeyTok(o[1][1], style), P(":")>> \o Render(o[1][2], style)
         \o (IF Len(o) > 1 THEN <<P(",")>> \o RenderMembers(Tail(o), style) ELSE <<>>)

RenderElements(a, style, sep) ==
    IF a = <<>> THEN <<>>
    ELSE Render(a[1], style)
         \o (IF Len(a) > 1 THEN sep \o RenderElements(Tail(a), style, sep) ELSE <<>>)

\* the report with its item list written with separator sep and closed by tail
RenderReportWith(items, overall, sep, tail) ==
    <<P("{"), TStr("compliance_analysis"), P(":"), P("[")>>
    \o RenderElements(items, "json", sep) \o tail
    \o <<P("]"), P(","), TStr("overall_compliance"), P(":"), BoolTok(overall, "json"), P(","),
         TStr("areas_exceeding_requirements"), P(":"), P("["), P("]"), P(","),
         TStr("potential_issues"), P(":"), P("["), P("]"), P("}")>>

\* the items, each with a nested object among its fields
WithDetails(items) ==
    [i \in 1..Len(items) |->
        JObj(items[i].o \o << <<"details", JObj(<< <<"source", JStr("datasheet")>> >>)>> >>)]

ResponseFormats ==
    {"clean", "fenced", "trailing_comma", "python", "bare_keys", "no_commas", "truncated",
     "refusal", "status_only", "nested"}

\* the response text for the raw items of one call
RenderResponse(items, overall, fmt) ==
    CASE fmt = "clean" -> Render(RawReport(items, overall), "json")
      [] fmt = "fenced" ->
            <<TProse("Here is the analysis:")>>
            \o Render(RawReport(items, overall), "json") \o <<TProse("Let me know if you need more.")>>
      [] fmt = "trailing_comma" -> RenderReportWith(items, overall, <<P(",")>>, <<P(",")>>)
      [] fmt = "python" -> Render(RawReport(items, overall), "python")
      [] fmt = "bare_keys" -> Render(RawReport(items, overall), "bare")
      [] fmt = "no_commas" -> RenderReportWith(items, overall, <<>>, <<>>)
      [] fmt = "truncated" ->
            <<P("{"), TStr("compliance_analysis"), P(":"), P("[")>>
            \o RenderElements(items, "json", <<P(",")>>) \o <<P(","), P("{"), TStr("requirement")>>
      [] fmt = "refusal" -> <<TProse("I cannot analyse these requirements.")>>
      [] fmt = "status_only" ->
            <<TProse("Analysis failed."), P("{"), TStr("status"), P(":"), TStr("failed"), P("}")>>
      [] fmt = "nested" -> Render(RawReport(WithDetails(items), overall), "json")

(***************************************************************************)
(* The comparator: MeterSpecificationComparison of src/old/comparison.py.  *)
(***************************************************************************)
\* the longest requirement list handed to compare
MaxReqs == 11

\* the longest of the short requirement lists
MaxShort == 5

\* the longest call for which the reasoning service answers in every response format;
\* longer calls are answered well-formed or fail
MaxFmtReqs == 2

MAX_REQUIREMENTS_PER_CHUNK == 10

\* the meter under comparison (selected_meter of the callers)
SelectedMeter == "PM5320"

\* the accuracy requirement of a list and the value the service reports for the meter
AccuracyPairs ==
    { <<"Class 0.5S", "Class 0.2S">>,
      <<"Class 0.5S", "Class 0.5S">>,
      <<"Class 0.2S", "Class 0.5S">>,
      <<"+-0.5%", "+-0.2%">>,
      <<"+-0.05%", "+-0.5%">>,
      <<"Class 0.5S, +-0.2%", "Class 0.2S, +-0.5%">>,
      <<"Accuracy to be Class 0.5.", "Class 0.5S">> }

Justifications == {"Not met", "Meter is better than required"}

\* a requirement list of n entries whose p-th entry is the accuracy requirement
ReqList(n, p, req) == [i \in 1..n |-> JStr(IF i = p THEN req ELSE "Req " \o NatStr(i))]

\* the service's raw verdicts for such a list: sv for the accuracy requirement, and the
\* first c of the other requirements judged compliant
VerdictList(n, p, sv, c) ==
    [i \in 1..n |->
        IF i = p THEN sv
        ELSE [spec_value    |-> "Val " \o NatStr(i),
              complies      |-> (IF i < p THEN i ELSE i - 1) <= c,
              justification |-> "Listed"]]

Positions(n) == {1, n}

\* the lengths of the requirement lists: the short ones, and those from the chunk limit up
ListLengths == (1..MaxShort) \cup (MAX_REQUIREMENTS_PER_CHUNK..MaxReqs)

CompliantOthers(n) == {0, n - 2, n - 1} \cap (0..(n - 1))

\* the outcomes of one reasoning-service call about cnt requirements: a response in one
\* of the formats, or the call raising (timeout, connection refused)
Outcomes(cnt) == IF cnt <= MaxFmtReqs THEN ResponseFormats \cup {"raise"} ELSE {"clean", "raise"}

ErrorResult(msg) == JObj(<< <<"error", JStr(msg)>> >>)

VARIABLES
    requirements,           \* the requirement list handed to compare (None: JNull)
    meter_specs,            \* the meter specification handed to compare (None: JNull)
    verdicts,               \* the reasoning service's raw verdict for each requirement
    ai_overall,             \* the overall_compliance the reasoning service states
    pc,                     \* "idle", "chunk" (inside the chunk loop), "done" (returned)
    path,                   \* the path compare took: "guard", "batch", "chunked", "stub"
    chunk_num,              \* the chunk the loop is at (i of enumerate(chunks, 1))
    all_compliance_items,   \* the chunk loop's accumulated items
    chunk_results,          \* the chunk loop's accepted chunk results
    ai_content,             \* the last response of the reasoning service
    extracted,              \* what _extract_and_repair_json made of ai_content
    result,                 \* the value compare returned
    log                     \* the reasoning-service calls, each by its outcome, and the
                            \* delays ("sleep"), in order

compareVars ==
    <<requirements, meter_specs, verdicts, ai_overall, pc, path, chunk_num,
      all_compliance_items, chunk_results, ai_content, extracted, result, log>>

(***************************************************************************)
(* State of the meter ranker (MeterDatabase.search_meters) and of the      *)
(* specification finders; the three components run independently.          *)
(***************************************************************************)
VARIABLES
    requirement,            \* the MeterRequirement handed to search_meters
    candidates,             \* the candidate pool _get_candidate_meters fetched
    primary,                \* the response to the ranking call of _ai_rank_meters
    secondary,              \* the response to the constrained call of _fallback_ranking
    database_matches,       \* search_meters' database_matches
    kb_matches,             \* search_meters' kb_matches (a list, or None)
    reranking,              \* the response to the re-rank call of _combine_and_rank_matches
    final_matches,          \* the list _combine_and_rank_matches returned
    returned,               \* the list search_meters returned
    rk_pc,                  \* "idle", "rank", "fallback", "kb", "combine", "done", "raised"
    calls                   \* the reasoning calls and ranking tiers used, in order

rankVars ==
    <<requirement, candidates, primary, secondary, database_matches, kb_matches,
      reranking, final_matches, returned, rk_pc, calls>>

VARIABLES
    catalogue,              \* the meters the backing stores hold
    model_number,           \* the model number handed to find
    finder,                 \* the finder that ran: "kb", "fast", "sql"
    found,                  \* what it returned
    fd_pc                   \* "idle", "done"

findVars == <<catalogue, model_number, finder, found, fd_pc>>

(***************************************************************************)
(* State of the tender analysis (TenderAnalyzer.analyze_document).         *)
(***************************************************************************)
VARIABLES
    records,                \* the MeterRequirement records extracted from the tender
    ad_results,             \* analyze_document's results list
    ad_pc                   \* "idle", "loop", "done" (returned), "raised"

analyzeVars == <<records, ad_results, ad_pc>>

(***************************************************************************)
(* State of the requirement extractor                                      *)
(* (DocumentParser.extract_meter_requirements).                            *)
(***************************************************************************)
VARIABLES
    document,               \* the lines of the tender text
    manual_clauses,         \* the clause identifiers the user selected
    clause_positions,       \* the selected clauses found in the document
    ex_responses,           \* the responses of the reasoning service, one per parsed section
    ex_requirements,        \* extract_meter_requirements' requirements list
    ex_pc                   \* "idle", "sections", "done"

extractVars ==
    <<document, manual_clauses, clause_positions, ex_responses, ex_requirements, ex_pc>>

(***************************************************************************)
(* State of one bounded-wait call (process_with_timeout).                  *)
(***************************************************************************)
VARIABLES
    pt_timeout,             \* the timeout argument, in seconds
    pt_now,                 \* the seconds elapsed since the call began
    pt_deadline,            \* the time at which the join the caller is blocked in gives up
    pt_thread,              \* the worker thread: "unstarted", "running", "finished"
    pt_finished_at,         \* the time the worker finished at (-1 while it has not)
    pt_result,              \* result[0]: <<>> for None, else the response
    pt_exception,           \* exception[0]: <<>> for None, else the exception caught
    pt_pc,                  \* "idle", "join", "check", "grace", "deliver", "returned", "raised"
    pt_outcome              \* what the caller got

callVars ==
    <<pt_timeout, pt_now, pt_deadline, pt_thread, pt_finished_at, pt_result, pt_exception,
      pt_pc, pt_outcome>>

\* the components that are not the comparator, the ranker or the finders
auxVars == <<analyzeVars, extractVars, callVars>>

\* a reasoning call that has not been made
NoResponse == [kind |-> "none", items |-> <<>>]

\* the value None where a list of matches is expected, and a list of matches
NoneMatches == [is_list |-> FALSE, items |-> <<>>]

ListMatches(items) == [is_list |-> TRUE, items |-> items]

RankIdle ==
    /\ requirement = <<>>
    /\ candidates = <<>>
    /\ primary = NoResponse
    /\ secondary = NoResponse
    /\ database_matches = <<>>
    /\ kb_matches = ListMatches(<<>>)
    /\ reranking = NoResponse
    /\ final_matches = <<>>
    /\ returned = <<>>
    /\ rk_pc = "idle"
    /\ calls = <<>>

FindIdle ==
    /\ catalogue = <<>>
    /\ model_number = ""
    /\ finder = "none"
    /\ found = JNull
    /\ fd_pc = "idle"

AnalyzeIdle ==
    /\ records = <<>>
    /\ ad_results = <<>>
    /\ ad_pc = "idle"

ExtractIdle ==
    /\ document = <<>>
    /\ manual_clauses = <<>>
    /\ clause_positions = <<>>
    /\ ex_responses = <<>>
    /\ ex_requirements = <<>>
    /\ ex_pc = "idle"

NoOutcome == [kind |-> "none", value |-> <<>>]

CallIdle ==
    /\ pt_timeout = 0
    /\ pt_now = 0
    /\ pt_deadline = 0
    /\ pt_thread = "unstarted"
    /\ pt_finished_at = -1
    /\ pt_result = <<>>
    /\ pt_exception = <<>>
    /\ pt_pc = "idle"
    /\ pt_outcome = NoOutcome

AuxIdle == AnalyzeIdle /\ ExtractIdle /\ CallIdle

SomeSpecs == JObj(<< <<"model_name", JStr(SelectedMeter)>>,
                     <<"accuracy_classes", JArr(<<JStr("Class 0.2S")>>)>> >>)

CompareIdle ==
    /\ pc = "idle"
    /\ path = "none"
    /\ chunk_num = 0
    /\ all_compliance_items = <<>>
    /\ chunk_results = <<>>
    /\ ai_content = <<>>
    /\ extracted = JNull
    /\ result = JNull
    /\ log = <<>>

\* a requirement list with one accuracy requirement, a meter specification, and the
\* verdicts the reasoning service holds
InitListed ==
    /\ \E n \in ListLengths : \E p \in Positions(n) : \E pair \in AccuracyPairs :
       \E c \in BOOLEAN : \E j \in Justifications : \E others \in CompliantOthers(n) :
          /\ requirements = JArr(ReqList(n, p, pair[1]))
          /\ verdicts = VerdictList(n, p, [spec_value |-> pair[2], complies |-> c,
                                           justification |-> j], others)
    /\ ai_overall \in BOOLEAN
    /\ meter_specs = SomeSpecs

\* an empty or missing requirement list or meter specification
InitMissing ==
    /\ requirements \in {JNull, JArr(<<>>), JArr(ReqList(1, 1, "Class 0.5S"))}
    /\ meter_specs \in {JNull, JObj(<<>>), SomeSpecs}
    /\ ~(Truthy(requirements) /\ Truthy(meter_specs))
    /\ verdicts = IF Truthy(requirements)
                  THEN VerdictList(1, 1, [spec_value |-> "Class 0.2S", complies |-> FALSE,
                                          justification |-> "Not met"], 0)
                  ELSE <<>>
    /\ ai_overall = FALSE

Init == (InitListed \/ InitMissing) /\ CompareIdle /\ RankIdle /\ FindIdle /\ AuxIdle

\* requirements[lo..hi] as the service answers them
RawItems(lo, hi) ==
    [i \in 1..(hi - lo + 1) |-> RawItem(requirements.a[lo + i - 1].s, verdicts[lo + i - 1])]

\* ollama.chat about requirements[lo..hi], answered in format fmt
AiChat(lo, hi, fmt) == RenderResponse(RawItems(lo, hi), ai_overall, fmt)

\* what the try block of _compare_requirements_with_specs returns for a correction pass
\* outcome: its result, or the except branch's error result when it raised
BatchOutcome(processed) ==
    IF processed.raises
    THEN {ErrorResult("AI comparison failed: could not convert string to float")}
    ELSE processed.results

\* the results of the single-batch path for a response: extraction, then correction pass
SingleBatchResults(content) == BatchOutcome(PostProcess(ExtractAndRepairJson(content)))

\* chunks = [requirements[i:i + chunk_size] for i in range(0, len(requirements), chunk_size)]
NumChunks(n, chunk_size) == (n + chunk_size - 1) \div chunk_size

ChunkLo(i, chunk_size) == (i - 1) * chunk_size + 1

ChunkHi(i, chunk_size, n) == IF i * chunk_size < n THEN i * chunk_size ELSE n

RECURSIVE SafeRemoveDuplicates(_, _)
\* _safe_remove_duplicates: the first occurrence of each entry, in order
SafeRemoveDuplicates(items, seen) ==
    IF items = <<>> THEN <<>>
    ELSE IF Head(items) \in seen THEN SafeRemoveDuplicates(Tail(items), seen)
    ELSE <<Head(items)>> \o SafeRemoveDuplicates(Tail(items), seen \cup {Head(items)})

RECURSIVE ListsOf(_, _)
\* the entries of field key of every chunk result in which it is a list
ListsOf(results, key) ==
    IF results = <<>> THEN <<>>
    ELSE LET v == Get(Head(results), key, JArr(<<>>))
         IN  (IF IsArr(v) THEN v.a ELSE <<>>) \o ListsOf(Tail(results), key)

\* combined_result of _compare_requirements_chunked
CombinedResult(items, results) ==
    JObj(<< <<"compliance_analysis", JArr(items)>>,
            <<"overall_compliance",
              JBool(IF Len(items) > 0 THEN MeetsThreshold(CompliantCount(items), Len(items))
                    ELSE FALSE)>>,
            <<"areas_exceeding_requirements",
              JArr(SafeRemoveDuplicates(ListsOf(results, "areas_exceeding_requirements"), {}))>>,
            <<"potential_issues",
              JArr(SafeRemoveDuplicates(ListsOf(results, "potential_issues"), {}))>> >>)

Return(value, via) ==
    /\ pc' = "done"
    /\ path' = via
    /\ result' = value

\* _compare_requirements_with_specs, early returns: nothing to analyse
CompareRejects ==
    /\ pc = "idle"
    /\ ~Truthy(requirements) \/ ~Truthy(meter_specs)
    /\ Return(IF ~Truthy(requirements) THEN ErrorResult("No requirements to analyze")
              ELSE ErrorResult("No specifications found for " \o SelectedMeter), "guard")
    /\ UNCHANGED <<requirements, meter_specs, verdicts, ai_overall, chunk_num,
                   all_compliance_items, chunk_results, ai_content, extracted, log>>
    /\ UNCHANGED <<rankVars, findVars, auxVars>>

\* _safe_comparison_analysis on a missing input: its own checks raise before compare is
\* called (enumerate(None): TypeError; None.items(): AttributeError) and its except
\* branches answer; on any other input it returns what compare returns
SafeComparisonAnalysis ==
    /\ pc = "idle"
    /\ requirements = JNull \/ meter_specs = JNull
    /\ Return(JObj(<< <<"error", JStr(IF requirements = JNull
                                      THEN "TypeError during comparison: 'NoneType' object is not iterable"
                                      ELSE "Comparison failed: 'NoneType' object has no attribute 'items'")>>,
                      <<"compliance_analysis", JArr(<<>>)>>,
                      <<"overall_compliance", JBool(FALSE)>>,
                      <<"areas_exceeding_requirements", JArr(<<>>)>>,
                      <<"potential_issues", JArr(<<>>)>> >>), "guard")
    /\ UNCHANGED <<requirements, meter_specs, verdicts, ai_overall, chunk_num,
                   all_compliance_items, chunk_results, ai_content, extracted, log>>
    /\ UNCHANGED <<rankVars, findVars, auxVars>>

\* the rest of the try block once the service has answered: extraction, correction pass
BatchReturn(content, report) ==
    /\ ai_content' = content
    /\ extracted' = report
    /\ \E r \in BatchOutcome(PostProcess(report)) : Return(r, "batch")

\* _compare_requirements_with_specs, at most MAX_REQUIREMENTS_PER_CHUNK requirements: one
\* call, extraction, correction pass
CompareSingleBatch ==
    /\ pc = "idle"
    /\ Truthy(requirements) /\ Truthy(meter_specs)
    /\ Len(requirements.a) <= MAX_REQUIREMENTS_PER_CHUNK
    /\ \E out \in Outcomes(Len(requirements.a)) :
          /\ log' = Append(log, out)
          /\ IF out = "raise"
             THEN /\ Return(ErrorResult("AI comparison failed: timed out"), "batch")
                  /\ UNCHANGED <<ai_content, extracted>>
             ELSE BatchReturn(AiChat(1, Len(requirements.a), out),
                              ExtractAndRepairJson(AiChat(1, Len(requirements.a), out)))
    /\ UNCHANGED <<requirements, meter_specs, verdicts, ai_overall, chunk_num,
                   all_compliance_items, chunk_results>>
    /\ UNCHANGED <<rankVars, findVars, auxVars>>

\* _compare_requirements_with_specs, more than MAX_REQUIREMENTS_PER_CHUNK requirements:
\* enters _compare_requirements_chunked
CompareChunked ==
    /\ pc = "idle"
    /\ Truthy(requirements) /\ Truthy(meter_specs)
    /\ Len(requirements.a) > MAX_REQUIREMENTS_PER_CHUNK
    /\ pc' = "chunk"
    /\ path' = "chunked"
    /\ chunk_num' = 1
    /\ UNCHANGED <<requirements, meter_specs, verdicts, ai_overall, all_compliance_items,
                   chunk_results, ai_content, extracted, result, log>>
    /\ UNCHANGED <<rankVars, findVars, auxVars>>

\* the loop body once chunk_result is known, for a loop of `last` chunks: a failed chunk is
\* skipped; an accepted one is accumulated and, unless it is the last, followed by the
\* delay; after the last chunk the combined result is returned
AfterChunk(out, chunk_result, items, results, last) ==
    /\ all_compliance_items' = items
    /\ chunk_results' = results
    /\ log' = log \o <<out>>
                  \o (IF ~HasKey(chunk_result, "error") /\ chunk_num < last
                      THEN <<"sleep">> ELSE <<>>)
    /\ IF chunk_num < last
       THEN /\ chunk_num' = chunk_num + 1
            /\ UNCHANGED <<pc, path, result>>
       ELSE /\ Return(CombinedResult(items, results), "chunked")
            /\ UNCHANGED chunk_num

\* chunk_result of one iteration, with what the loop accumulates from it
ChunkDone(out, chunk_result, last) ==
    IF HasKey(chunk_result, "error")
    THEN AfterChunk(out, chunk_result, all_compliance_items, chunk_results, last)
    ELSE AfterChunk(out, chunk_result, all_compliance_items \o AnalysisItems(chunk_result),
                    Append(chunk_results, chunk_result), last)

\* one iteration of the chunk loop
ProcessChunk ==
    /\ pc = "chunk"
    /\ \E out \in Outcomes(ChunkHi(chunk_num, MAX_REQUIREMENTS_PER_CHUNK, Len(requirements.a))
                           - ChunkLo(chunk_num, MAX_REQUIREMENTS_PER_CHUNK) + 1) :
          /\ IF out = "raise" THEN UNCHANGED <<ai_content, extracted>>
             ELSE /\ ai_content' = AiChat(ChunkLo(chunk_num, MAX_REQUIREMENTS_PER_CHUNK),
                                          ChunkHi(chunk_num, MAX_REQUIREMENTS_PER_CHUNK,
                                                  Len(requirements.a)), out)
                  /\ extracted' = ExtractAndRepairJson(ai_content')
          /\ ChunkDone(out,
                       IF out = "raise"
                       THEN ErrorResult("Chunk " \o NatStr(chunk_num) \o " failed: timed out")
                       ELSE extracted',
                       NumChunks(Len(requirements.a), MAX_REQUIREMENTS_PER_CHUNK))
    /\ UNCHANGED <<requirements, meter_specs, verdicts, ai_overall>>
    /\ UNCHANGED <<rankVars, findVars, auxVars>>

\* MeterSpecificationAnalyzer.compare_requirements_with_specs of the modular variant: its
\* body is `pass`
ModularCompare ==
    /\ pc = "idle"
    /\ Return(JNull, "stub")
    /\ UNCHANGED <<requirements, meter_specs, verdicts, ai_overall, chunk_num,
                   all_compliance_items, chunk_results, ai_content, extracted, log>>
    /\ UNCHANGED <<rankVars, findVars, auxVars>>

Next ==
    \/ CompareRejects
    \/ SafeComparisonAnalysis
    \/ CompareSingleBatch
    \/ CompareChunked
    \/ ProcessChunk
    \/ ModularCompare

vars == <<compareVars, rankVars, findVars, auxVars>>

Spec == Init /\ [][Next]_vars

(***************************************************************************)
(* The meter ranker: MeterDatabase.search_meters of databasingcode.py.     *)
(* A reasoning response is a record: kind "raise" (the call, or json.loads *)
(* on its text, raises), "text" (no JSON structure in the text) or "json"  *)
(* (the parsed structure's list is in items).  A MeterMatch is modelled by *)
(* its product_id, model_number and score; description, reasoning and      *)
(* spec_compliance do not influence which matches are returned.            *)
(***************************************************************************)
Raises == [kind |-> "raise", items |-> <<>>]

NoJson == [kind |-> "text", items |-> <<>>]

Json(items) == [kind |-> "json", items |-> items]

Product(id, model, description) ==
    [ProductID |-> id, ModelNumber |-> model, ProductDescription |-> description]

\* the rows of the Products table, in rowid order
Products ==
    << Product(1, "PM5350", "Power meter"),
       Product(2, "ION9000", "Power quality meter"),
       Product(3, "PM2120", "Basic energy meter"),
       Product(4, "iEM3155", "Energy meter"),
       Product(5, "PM8240", "Power quality meter"),
       Product(6, "EGX100", "Ethernet gateway") >>

\* the characters in the order of their codes (SQLite's binary collation)
AsciiOrder == DigitChars \o UpperChars \o LowerChars

RECURSIVE StrLess(_, _)
StrLess(a, b) ==
    IF b = "" THEN FALSE
    ELSE IF a = "" THEN TRUE
    ELSE IF Head(a) = Head(b) THEN StrLess(Tail(a), Tail(b))
    ELSE IndexIn(AsciiOrder, Head(a)) < IndexIn(AsciiOrder, Head(b))

RECURSIVE InsertByModel(_, _)
InsertByModel(sorted, row) ==
    IF sorted = <<>> THEN <<row>>
    ELSE IF StrLess(row.ModelNumber, Head(sorted).ModelNumber) THEN <<row>> \o sorted
    ELSE <<Head(sorted)>> \o InsertByModel(Tail(sorted), row)

\* ORDER BY ModelNumber
RECURSIVE OrderByModel(_, _)
OrderByModel(rows, acc) ==
    IF rows = <<>> THEN acc ELSE OrderByModel(Tail(rows), InsertByModel(acc, Head(rows)))

\* LIMIT n, and the slice q[:n]
Limit(q, n) == SubSeq(q, 1, IF Len(q) < n THEN Len(q) ELSE n)

PoolLimit == 25

\* a WHERE condition: the columns its text names and, for LOWER(columns[1]) LIKE pattern,
\* a pattern of the form 'x%' or '%x%'
Cond(columns, pattern) == [columns |-> columns, pattern |-> pattern]

Like(text, pattern) ==
    IF StartsWith(pattern, "%")
    THEN Contains(Lower(text), SubSeq(pattern, 2, Len(pattern) - 1))
    ELSE StartsWith(Lower(text), SubSeq(pattern, 1, Len(pattern) - 1))

valid_columns == {"ProductID", "ModelNumber", "ProductDescription", "MID_Certified"}

\* _fallback_conditions
FallbackConditions ==
    << Cond(<<"ProductDescription">>, "%power%"),
       Cond(<<"ProductDescription">>, "%meter%"),
       Cond(<<"ProductDescription">>, "%quality%"),
       Cond(<<"ProductDescription">>, "%monitoring%"),
       Cond(<<"ProductDescription">>, "%energy%") >>

\* the conditions whose text names a valid column
SafeConditions(conditions) ==
    SelectSeq(conditions, LAMBDA c : \E col \in Range(c.columns) : col \in valid_columns)

\* the conditions the query is built from
ConditionsFor(response) ==
    IF response.kind = "json" /\ SafeConditions(response.items) # <<>>
    THEN SafeConditions(response.items)
    ELSE FallbackConditions

\* sqlite3.Error: a condition names a column the table does not have
QueryFails(conditions) ==
    \E i \in 1..Len(conditions) : \E col \in Range(conditions[i].columns) :
        col \notin valid_columns

RowMatches(row, conditions) ==
    \E i \in 1..Len(conditions) :
        Like(IF conditions[i].columns[1] = "ModelNumber" THEN row.ModelNumber
             ELSE row.ProductDescription, conditions[i].pattern)

\* the rows the query, or after sqlite3.Error the unfiltered query, returns
QueryRows(conditions) ==
    IF QueryFails(conditions) THEN Limit(Products, PoolLimit)
    ELSE Limit(OrderByModel(SelectSeq(Products, LAMBDA row : RowMatches(row, conditions)),
                            <<>>), PoolLimit)

\* ' '.join(requirement.specifications).lower()
RECURSIVE Join(_)
Join(strings) ==
    IF strings = <<>> THEN ""
    ELSE IF Len(strings) = 1 THEN strings[1]
    ELSE strings[1] \o " " \o Join(Tail(strings))

CostTerms == {"economic", "cost-effective", "basic", "simple", "budget", "affordable"}

HighEndTerms ==
    {"precision", "high accuracy", "class 0.1", "advanced power quality",
     "extensive analysis", "comprehensive", "harmonic"}

HasTerm(text, terms) == \E t \in terms : Contains(text, t)

cost_sensitive(req) == HasTerm(Lower(Join(req)), CostTerms)

high_end(req) == HasTerm(Lower(Join(req)), HighEndTerms)

MeterMatch(product_id, model, score) ==
    [product_id |-> product_id, model_number |-> model, score |-> score]

InPool(pool, model) == \E i \in 1..Len(pool) : pool[i].ModelNumber = model

\* candidate_lookup[model]: the last candidate of that ModelNumber
Lookup(pool, model) ==
    pool[CHOOSE i \in 1..Len(pool) :
            /\ pool[i].ModelNumber = model
            /\ \A j \in (i + 1)..Len(pool) : pool[j].ModelNumber # model]

\* the rankings that name a candidate
ValidRankings(rankings, pool) == SelectSeq(rankings, LAMBDA r : InPool(pool, r.model))

\* _convert_ai_rankings: int((score + value_score) / 2) for each ranking of a candidate
RECURSIVE ConvertAiRankings(_, _)
ConvertAiRankings(rankings, pool) ==
    IF rankings = <<>> THEN <<>>
    ELSE (IF InPool(pool, Head(rankings).model)
          THEN <<MeterMatch(NatStr(Lookup(pool, Head(rankings).model).ProductID),
                            Head(rankings).model,
                            (Head(rankings).score + Head(rankings).value_score) \div 2)>>
          ELSE <<>>) \o ConvertAiRankings(Tail(rankings), pool)

\* whether _ai_rank_meters hands over to _fallback_ranking
PrimaryFails(response, pool) ==
    \/ response.kind # "json"
    \/ /\ \E i \in 1..Len(response.items) : ~InPool(pool, response.items[i].model)
       /\ ValidRankings(response.items, pool) = <<>>

EmergencyScore == 70

\* the candidates whose ModelNumber contains tag
Group(pool, tag) == SelectSeq(pool, LAMBDA m : Contains(m.ModelNumber, tag))

IemGroup(pool) == SelectSeq(pool, LAMBDA m : Contains(Upper(m.ModelNumber), "IEM"))

ModelGroups(pool, req) ==
    IF cost_sensitive(req)
    THEN <<Group(pool, "PM2"), Group(pool, "PM5"), IemGroup(pool), Group(pool, "PM8"),
           Group(pool, "ION")>>
    ELSE IF high_end(req)
    THEN <<Group(pool, "PM8"), Group(pool, "ION"), Group(pool, "PM5"), Group(pool, "PM2"),
           IemGroup(pool)>>
    ELSE <<Group(pool, "PM5"), Group(pool, "PM8"), Group(pool, "PM2"), Group(pool, "ION"),
           IemGroup(pool)>>

\* the rule-based tier selection: the first model of each non-empty group
RECURSIVE EmergencyMatches(_)
EmergencyMatches(groups) ==
    IF groups = <<>> THEN <<>>
    ELSE (IF Head(groups) # <<>>
          THEN <<MeterMatch(NatStr(Head(groups)[1].ProductID), Head(groups)[1].ModelNumber,
                            EmergencyScore)>>
          ELSE <<>>) \o EmergencyMatches(Tail(groups))

\* the known valid models of _verify_model_exists
valid_models ==
    {"ION9000", "ION9000T",
     "PM8140", "PM8143", "PM8144", "PM8240", "PM8243", "PM8244",
     "PM8340", "PM8341", "PM8342", "PM8343", "PM8344",
     "PM5100", "PM5110", "PM5111",
     "PM5300", "PM5310", "PM5320", "PM5330", "PM5340", "PM5341",
     "PM5560", "PM5561", "PM5562", "PM5563", "PM5580",
     "PM2100", "PM2110", "PM2120", "PM2130", "PM2200", "PM2210", "PM2220", "PM2230",
     "iEM3150", "iEM3155", "iEM3250", "iEM3255", "iEM3350", "iEM3355", "iEM3455",
     "iEM3555"}

\* _verify_model_exists(model) without a candidate list: a Products row, a known valid
\* model, or a series wildcard ending in "xx" whose prefix starts a known valid model
VerifyModelExists(model) ==
    \/ InPool(Products, model)
    \/ model \in valid_models
    \/ /\ EndsWith(model, "xx")
       /\ \E m \in valid_models : StartsWith(m, SubSeq(model, 1, Len(model) - 2))

\* the matches _kb_fallback_selection builds from the response's "matches" list
RECURSIVE KbValidMatches(_)
KbValidMatches(matches) ==
    IF matches = <<>> THEN <<>>
    ELSE (IF VerifyModelExists(Head(matches).model)
          THEN <<MeterMatch("KB_" \o Head(matches).model, Head(matches).model,
                            Head(matches).score)>>
          ELSE <<>>) \o KbValidMatches(Tail(matches))

\* what _kb_fallback_selection returns: [] when the knowledge base cannot be loaded or the
\* call or json.loads raises; None when the response has no JSON object or an empty
\* "matches" list (the function ends without a return statement)
KbSelection(kb_loaded, response) ==
    IF ~kb_loaded \/ response.kind = "raise" THEN ListMatches(<<>>)
    ELSE IF response.kind = "text" \/ response.items = <<>> THEN NoneMatches
    ELSE ListMatches(KbValidMatches(response.items))

\* int(score * k) for k = tenths / 10, as binary floating point computes it: the product
\* falls just below the integer for k = 0.7 at scores 90, 170 and 180
Scaled(score, tenths) ==
    IF tenths = 7 /\ score \in {90, 170, 180} THEN (score * tenths) \div 10 - 1
    ELSE (score * tenths) \div 10

AtMost(bound, n) == IF n < bound THEN n ELSE bound

AtLeast(bound, n) == IF n > bound THEN n ELSE bound

ScoreCeiling == 100

\* the score adjustment when only one source produced matches
ValueScore(model, score, req) ==
    IF cost_sensitive(req)
    THEN IF Contains(model, "PM2") THEN AtMost(ScoreCeiling, Scaled(score, 13))
         ELSE IF Contains(model, "PM5") THEN AtMost(ScoreCeiling, Scaled(score, 11))
         ELSE IF Contains(model, "PM8") THEN AtLeast(30, Scaled(score, 8))
         ELSE IF Contains(model, "ION9") THEN AtLeast(20, Scaled(score, 6))
         ELSE score
    ELSE IF high_end(req)
    THEN IF Contains(model, "ION9") THEN AtMost(ScoreCeiling, Scaled(score, 13))
         ELSE IF Contains(model, "PM8") THEN AtMost(ScoreCeiling, Scaled(score, 12))
         ELSE IF Contains(model, "PM2") THEN AtLeast(30, Scaled(score, 7))
         ELSE score
    ELSE score

\* the score adjustment when the re-rank response has no JSON array
BasicValueScore(model, score, req) ==
    IF cost_sensitive(req)
    THEN IF Contains(model, "PM2") THEN AtMost(ScoreCeiling, Scaled(score, 13))
         ELSE IF Contains(model, "ION9") THEN AtLeast(20, Scaled(score, 6))
         ELSE score
    ELSE score

Adjusted(matches, req) ==
    [i \in 1..Len(matches) |->
        [matches[i] EXCEPT !.score = ValueScore(Upper(matches[i].model_number),
                                                matches[i].score, req)]]

BasicAdjusted(matches, req) ==
    [i \in 1..Len(matches) |->
        [matches[i] EXCEPT !.score = BasicValueScore(Upper(matches[i].model_number),
                                                     matches[i].score, req)]]

RECURSIVE InsertByScore(_, _)
InsertByScore(sorted, m) ==
    IF sorted = <<>> THEN <<m>>
    ELSE IF Head(sorted).score >= m.score THEN <<Head(sorted)>> \o InsertByScore(Tail(sorted), m)
    ELSE <<m>> \o sorted

\* sorted(matches, key=lambda x: x.score, reverse=True): stable
RECURSIVE SortByScore(_, _)
SortByScore(matches, acc) ==
    IF matches = <<>> THEN acc ELSE SortByScore(Tail(matches), InsertByScore(acc, Head(matches)))

\* 0 <= idx < len(all_matches)
InRange(idx, matches) == 0 <= idx /\ idx < Len(matches)

\* the merged pool after the re-rank loop wrote every final_score (a match named twice is
\* one object: it carries the score written last)
RECURSIVE Rescored(_, _)
Rescored(matches, ranking) ==
    IF ranking = <<>> THEN matches
    ELSE Rescored(IF InRange(Head(ranking).index, matches)
                  THEN [matches EXCEPT ![Head(ranking).index + 1].score =
                                            Head(ranking).final_score]
                  ELSE matches, Tail(ranking))

\* final_matches after the re-rank loop: the named matches in the response's order
RECURSIVE RankedMatches(_, _)
RankedMatches(matches, ranking) ==
    IF ranking = <<>> THEN <<>>
    ELSE (IF InRange(Head(ranking).index, matches)
          THEN <<matches[Head(ranking).index + 1]>> ELSE <<>>)
         \o RankedMatches(matches, Tail(ranking))

\* the matches the response did not name, in their original order
RECURSIVE UnrankedFrom(_, _, _)
UnrankedFrom(matches, ranking, i) ==
    IF i > Len(matches) THEN <<>>
    ELSE (IF \E k \in 1..Len(ranking) : ranking[k].index = i - 1 THEN <<>>
          ELSE <<matches[i]>>) \o UnrankedFrom(matches, ranking, i + 1)

\* a re-rank that returns the named matches alone
RerankedNamedOnly(matches, ranking) == RankedMatches(matches, ranking)

Reranked(matches, ranking) ==
    RankedMatches(matches, ranking) \o UnrankedFrom(matches, ranking, 1)

\* _combine_and_rank_matches once both sources produced matches
CombineBoth(all_matches, response, req) ==
    IF response.kind = "raise" THEN SortByScore(all_matches, <<>>)
    ELSE IF response.kind = "text" THEN SortByScore(BasicAdjusted(all_matches, req), <<>>)
    ELSE Reranked(Rescored(all_matches, response.items), response.items)

ReturnLimit == 5

(***************************************************************************)
(* The inputs of the ranker: requirements and reasoning responses.         *)
(***************************************************************************)
RequirementSamples ==
    { <<"basic energy metering">>, <<"harmonic analysis">>, <<"three phase", "RS485">> }

\* responses to the query-generation call
SqlResponses ==
    { Raises, NoJson,
      Json(<<>>),
      Json(<<Cond(<<"ModelNumber">>, "pm%")>>),
      Json(<<Cond(<<"ModelNumber">>, "ion%"), Cond(<<"ModelNumber">>, "iem%")>>),
      Json(<<Cond(<<"ModelNumber">>, "zz%")>>),
      Json(<<Cond(<<"Price">>, "%1%")>>),
      Json(<<Cond(<<"ModelNumber", "Price">>, "pm%")>>) }

\* a model number no store holds
Hallucinated == "PM9999"

Ranking(model, score, value_score) ==
    [model |-> model, score |-> score, value_score |-> value_score]

\* the (score, value_score) pairs of a ranking response: they alternate along the list
ScorePairs == << <<85, 85>>, <<60, 90>> >>

ScorePairAt(i) == ScorePairs[((i + 1) % 2) + 1]

\* the model numbers a ranking response names
NamedModels(pool) == {pool[1].ModelNumber, pool[Len(pool)].ModelNumber, Hallucinated}

MaxRankings == 2

\* the lists a ranking response can hold; a list of one has either pair
RankingLists(models) ==
    UNION { { [i \in 1..n |-> Ranking(ms[i], ScorePairAt(i + k)[1], ScorePairAt(i + k)[2])] :
                ms \in [1..n -> models], k \in (IF n = 1 THEN {0, 1} ELSE {0}) } :
            n \in 0..MaxRankings }

RankResponses(pool) == {Raises, NoJson} \cup { Json(r) : r \in RankingLists(NamedModels(pool)) }

\* the model numbers the knowledge-base selection names: a known valid model, a series
\* wildcard, a Products row, an invented number
KbNamedModels == {"PM5560", "PM53xx", "EGX100", Hallucinated}

KbMatch(model, score) == [model |-> model, score |-> score]

\* the scores of a knowledge-base response: they alternate along the list
KbScores == <<90, 60>>

KbScoreAt(i) == KbScores[((i + 1) % 2) + 1]

MaxKbMatches == 2

KbMatchLists ==
    UNION { { [i \in 1..n |-> KbMatch(ms[i], KbScoreAt(i + k))] :
                ms \in [1..n -> KbNamedModels], k \in (IF n = 1 THEN {0, 1} ELSE {0}) } :
            n \in 0..MaxKbMatches }

KbResponses == {Raises, NoJson} \cup { Json(m) : m \in KbMatchLists }

Rerank(index, final_score) == [index |-> index, final_score |-> final_score]

\* re-rank responses for a merged pool of n matches: nothing named, one match named, the
\* first and the last named in either order, one named twice, an index out of range, a
\* final_score above the scale
RerankLists(n) ==
    { <<>>, <<Rerank(0, 95)>>, <<Rerank(n - 1, 95)>>, <<Rerank(n, 95)>>,
      <<Rerank(n - 1, 95), Rerank(0, 40)>>, <<Rerank(0, 95), Rerank(0, 40)>>,
      <<Rerank(0, 120)>> }

RerankResponses(n) == {Raises, NoJson} \cup { Json(r) : r \in RerankLists(n) }

(***************************************************************************)
(* search_meters, step by step.                                            *)
(***************************************************************************)
InitRank ==
    /\ requirement \in RequirementSamples
    /\ candidates = <<>>
    /\ primary = NoResponse
    /\ secondary = NoResponse
    /\ database_matches = <<>>
    /\ kb_matches = ListMatches(<<>>)
    /\ reranking = NoResponse
    /\ final_matches = <<>>
    /\ returned = <<>>
    /\ rk_pc = "idle"
    /\ calls = <<>>
    /\ (requirements = JNull /\ meter_specs = JNull /\ verdicts = <<>> /\ ai_overall = FALSE)
    /\ CompareIdle
    /\ FindIdle
    /\ AuxIdle

\* _get_candidate_meters, and search_meters' test of its result
GetCandidateMeters ==
    /\ rk_pc = "idle"
    /\ \E response \in SqlResponses :
          /\ candidates' = QueryRows(ConditionsFor(response))
          /\ rk_pc' = IF candidates' # <<>> THEN "rank" ELSE "kb"
    /\ calls' = Append(calls, "query")
    /\ UNCHANGED <<requirement, primary, secondary, database_matches, kb_matches, returned>>
    /\ UNCHANGED <<reranking, final_matches>>
    /\ UNCHANGED <<compareVars, findVars, auxVars>>

\* _ai_rank_meters up to its return or its hand-over to _fallback_ranking; each converted
\* ranking costs one compliance call (_analyze_spec_compliance_with_ai)
AiRankMeters ==
    /\ rk_pc = "rank"
    /\ \E response \in RankResponses(candidates) :
          /\ primary' = response
          /\ IF PrimaryFails(response, candidates)
             THEN /\ rk_pc' = "fallback"
                  /\ calls' = Append(calls, "primary")
                  /\ UNCHANGED database_matches
             ELSE /\ rk_pc' = "kb"
                  /\ database_matches' = ConvertAiRankings(response.items, candidates)
                  /\ calls' = calls \o <<"primary">>
                                    \o [i \in 1..Len(database_matches') |-> "compliance"]
    /\ UNCHANGED <<requirement, candidates, secondary, kb_matches, returned>>
    /\ UNCHANGED <<reranking, final_matches>>
    /\ UNCHANGED <<compareVars, findVars, auxVars>>

\* _fallback_ranking: the constrained call, then the rule-based selection.  Every outcome
\* of the call reaches the rule-based selection: a raise is caught; a response without
\* JSON or without a valid ranking leaves the try block; a response with a valid ranking
\* calls self._convert_fallback_rankings, which the class does not define, and the
\* AttributeError is caught by the same except clause
FallbackRanking ==
    /\ rk_pc = "fallback"
    /\ \E response \in RankResponses(candidates) : secondary' = response
    /\ database_matches' = EmergencyMatches(ModelGroups(candidates, requirement))
    /\ calls' = calls \o <<"secondary", "rule_based">>
    /\ rk_pc' = "kb"
    /\ UNCHANGED <<requirement, candidates, primary, kb_matches, returned>>
    /\ UNCHANGED <<reranking, final_matches>>
    /\ UNCHANGED <<compareVars, findVars, auxVars>>

\* _kb_fallback_selection
KbFallbackSelection ==
    /\ rk_pc = "kb"
    /\ \E kb_loaded \in BOOLEAN : \E response \in KbResponses :
          /\ kb_loaded \/ response = Raises
          /\ kb_matches' = KbSelection(kb_loaded, response)
          /\ calls' = IF kb_loaded THEN Append(calls, "kb") ELSE calls
    /\ rk_pc' = "combine"
    /\ UNCHANGED <<requirement, candidates, primary, secondary, database_matches, returned>>
    /\ UNCHANGED <<reranking, final_matches>>
    /\ UNCHANGED <<compareVars, findVars, auxVars>>

Finish(matches) ==
    /\ final_matches' = matches
    /\ returned' = Limit(matches, ReturnLimit)
    /\ rk_pc' = "done"

\* _combine_and_rank_matches and search_meters' return; db_matches + None raises TypeError
CombineAndRankMatches ==
    /\ rk_pc = "combine"
    /\ IF ~kb_matches.is_list
       THEN /\ rk_pc' = "raised"
            /\ UNCHANGED <<reranking, final_matches, returned, calls>>
       ELSE IF database_matches = <<>> \/ kb_matches.items = <<>>
       THEN /\ Finish(SortByScore(Adjusted(database_matches \o kb_matches.items,
                                           requirement), <<>>))
            /\ UNCHANGED <<reranking, calls>>
       ELSE /\ \E response \in RerankResponses(Len(database_matches) + Len(kb_matches.items)) :
                  /\ reranking' = response
                  /\ Finish(CombineBoth(database_matches \o kb_matches.items, response,
                                        requirement))
            /\ calls' = Append(calls, "rerank")
    /\ UNCHANGED <<requirement, candidates, primary, secondary, database_matches, kb_matches>>
    /\ UNCHANGED <<compareVars, findVars, auxVars>>

\* _combine_and_rank_matches on its own: the function is entered with the matches of the
\* two sources, a list of at most MaxSourceMatches matches each (or None for the
\* knowledge base)
MaxSourceMatches == 2

DbMatchSamples ==
    {MeterMatch("1", "PM5350", 85), MeterMatch("2", "ION9000", 75), MeterMatch("3", "PM2120", 60)}

KbMatchSamples == {MeterMatch("KB_PM5560", "PM5560", 90), MeterMatch("KB_EGX100", "EGX100", 60)}

MatchLists(samples) == UNION { [1..n -> samples] : n \in 0..MaxSourceMatches }

InitCombine ==
    /\ requirement \in RequirementSamples
    /\ candidates = <<>>
    /\ primary = NoResponse
    /\ secondary = NoResponse
    /\ database_matches \in MatchLists(DbMatchSamples)
    /\ kb_matches \in {NoneMatches} \cup { ListMatches(m) : m \in MatchLists(KbMatchSamples) }
    /\ reranking = NoResponse
    /\ final_matches = <<>>
    /\ returned = <<>>
    /\ rk_pc = "combine"
    /\ calls = <<>>
    /\ (requirements = JNull /\ meter_specs = JNull /\ verdicts = <<>> /\ ai_overall = FALSE)
    /\ CompareIdle
    /\ FindIdle
    /\ AuxIdle

SpecCombine == InitCombine /\ [][CombineAndRankMatches]_vars

NextRank ==
    \/ GetCandidateMeters
    \/ AiRankMeters
    \/ FallbackRanking
    \/ KbFallbackSelection
    \/ CombineAndRankMatches

SpecRank == InitRank /\ [][NextRank]_vars

(***************************************************************************)
(* The specification finders.  Three stores back them: the knowledge base  *)
(* (series -> series data with a model_breakdown), the in-memory meter     *)
(* table of fast_meter_db.py, and the Meters tables of the SQLite store.   *)
(* One catalogue describes what the stores hold: a sequence of series,     *)
(* each with its accuracy entries and its meters.                          *)
(***************************************************************************)
Meter(model_name, short_name) == [model_name |-> model_name, short_name |-> short_name]

Series(key, product, accuracy, meters) ==
    [key |-> key, product |-> product, accuracy |-> accuracy, meters |-> meters]

JStrings(strings) == JArr([i \in 1..Len(strings) |-> JStr(strings[i])])

\* the text before the first occurrence of character c: s.split(c)[0]
SplitHead(s, c) == IF FindCh(s, c, 1) = 0 THEN s ELSE SubSeq(s, 1, FindCh(s, c, 1) - 1)

\* --- the knowledge base: MeterSpecificationComparison.kb_data ---
KbVariant(meter) ==
    JObj(<< <<"model_name", JStr(meter.model_name)>>,
            <<"key_differentiator", JStr("variant of the series")>> >>)

KbSeries(series) ==
    JObj(<< <<"model", JStr(series.product)>>,
            <<"summary", JStr("series summary")>>,
            <<"performance_and_accuracy", JStrings(series.accuracy)>>,
            <<"technical_specifications", JObj(<<>>)>>,
            <<"model_breakdown",
              JArr([i \in 1..Len(series.meters) |-> KbVariant(series.meters[i])])>> >>)

KbData(cat) == JObj([i \in 1..Len(cat) |-> <<cat[i].key, KbSeries(cat[i])>>])

\* the specs dictionary built from a series and the variant that matched
VariantSpecs(series_data, variant) ==
    JObj(<< <<"model", Get(series_data, "model", JStr(""))>>,
            <<"summary", Get(series_data, "summary", JStr(""))>>,
            <<"variant", Get(variant, "model_name", JStr(""))>>,
            <<"variant_features", Get(variant, "key_differentiator", JStr(""))>>,
            <<"performance_and_accuracy",
              Get(series_data, "performance_and_accuracy", JArr(<<>>))>>,
            <<"technical_specifications",
              Get(series_data, "technical_specifications", JObj(<<>>))>> >>)

VariantName(variant) == Get(variant, "model_name", JStr("")).s

Breakdown(series_data) == Get(series_data, "model_breakdown", JArr(<<>>)).a

\* the first variant of the breakdown whose name contains text, as a list of at most one
FirstContaining(variants, text) ==
    IF \E i \in 1..Len(variants) : Contains(VariantName(variants[i]), text)
    THEN <<variants[CHOOSE i \in 1..Len(variants) :
                       /\ Contains(VariantName(variants[i]), text)
                       /\ \A j \in 1..(i - 1) : ~Contains(VariantName(variants[j]), text)]>>
    ELSE <<>>

\* the PM8000 special case: the variant whose name contains the two characters after "PM"
Pm8Variant(kb, model) ==
    IF StartsWith(model, "PM8") /\ HasKey(kb, "PM8000_Series") /\ Len(model) >= 4
    THEN FirstContaining(Breakdown(Get(kb, "PM8000_Series", JNull)), SubSeq(model, 3, 4))
    ELSE <<>>

\* re.match(r'([A-Za-z]+\d+)', model): the letters and all the digits that follow them
FamilyPrefix(model) ==
    IF SkipAlpha(model, 1) > 1 /\ SkipDigits(model, SkipAlpha(model, 1)) > SkipAlpha(model, 1)
    THEN SubSeq(model, 1, SkipDigits(model, SkipAlpha(model, 1)) - 1)
    ELSE ""

\* the variant test of the series rule
VariantMatches(model, name) ==
    \/ Contains(name, model)
    \/ model = SplitHead(name, " ")
    \/ StartsWith(model, SplitHead(name, "x"))

SeriesRule(series_data, model) ==
    IF \E i \in 1..Len(Breakdown(series_data)) :
          VariantMatches(model, VariantName(Breakdown(series_data)[i]))
    THEN VariantSpecs(series_data,
                      Breakdown(series_data)[
                          CHOOSE i \in 1..Len(Breakdown(series_data)) :
                             /\ VariantMatches(model, VariantName(Breakdown(series_data)[i]))
                             /\ \A j \in 1..(i - 1) :
                                   ~VariantMatches(model,
                                                   VariantName(Breakdown(series_data)[j]))])
    ELSE series_data

\* the scan of every series' breakdown for a variant name that contains the model
RECURSIVE ScanAllSeries(_, _, _)
ScanAllSeries(kb, model, i) ==
    IF i > Len(kb.o) THEN JObj(<<>>)
    ELSE IF FirstContaining(Breakdown(kb.o[i][2]), model) # <<>>
    THEN VariantSpecs(kb.o[i][2], FirstContaining(Breakdown(kb.o[i][2]), model)[1])
    ELSE ScanAllSeries(kb, model, i + 1)

\* _find_meter_specs of comparison.py
FindMeterSpecs(kb, model) ==
    IF Pm8Variant(kb, model) # <<>>
    THEN VariantSpecs(Get(kb, "PM8000_Series", JNull), Pm8Variant(kb, model)[1])
    ELSE IF FamilyPrefix(model) = "" THEN JObj(<<>>)
    ELSE IF HasKey(kb, FamilyPrefix(model) \o "000_Series")
    THEN SeriesRule(Get(kb, FamilyPrefix(model) \o "000_Series", JNull), model)
    ELSE IF StartsWith(model, "iEM") /\ HasKey(kb, "iEM3000_Series")
    THEN Get(kb, "iEM3000_Series", JNull)
    ELSE ScanAllSeries(kb, model, 1)

\* --- the in-memory table of fast_meter_db.py ---
\* _normalize_meter_data; the Accuracy_class entry is held as a list, which _ensure_list
\* returns as it is
NormalizeMeterData(meter, series) ==
    JObj(<< <<"model_name", JStr(meter.model_name)>>,
            <<"series", JStr(series.key)>>,
            <<"description", JStr("")>>,
            <<"measurement_accuracy", JObj(<<>>)>>,
            <<"accuracy_classes", JStrings(series.accuracy)>>,
            <<"power_quality_features", JArr(<<>>)>>,
            <<"applications", JArr(<<>>)>>,
            <<"measurements", JArr(<<>>)>>,
            <<"certifications", JArr(<<>>)>>,
            <<"communication_protocols", JObj(<<>>)>>,
            <<"technical_details", JObj(<<>>)>>,
            <<"memory_capacity", JStr("")>>,
            <<"sampling_rate", JStr("")>> >>
         \o (IF meter.short_name # ""
             THEN << <<"device_short_name", JStr(Strip(meter.short_name))>> >>
             ELSE <<>>))

\* group(1) of re.search(r'([A-Za-z]+)(\d+)', name) from position i: the first run of
\* letters that a digit follows; "" when there is none
RECURSIVE SeriesLetters(_, _)
SeriesLetters(name, i) ==
    IF i > Len(name) THEN ""
    ELSE IF ~IsAlpha(Ch(name, i)) THEN SeriesLetters(name, i + 1)
    ELSE IF SkipAlpha(name, i) <= Len(name) /\ IsDigit(Ch(name, SkipAlpha(name, i)))
    THEN SubSeq(name, i, SkipAlpha(name, i) - 1)
    ELSE SeriesLetters(name, SkipAlpha(name, i))

\* the lookup keys of one meter
LookupKeys(meter) ==
    <<Upper(meter.model_name)>>
    \o (IF meter.short_name # "" THEN <<Upper(Strip(meter.short_name))>> ELSE <<>>)
    \o (IF SeriesLetters(meter.model_name, 1) # ""
        THEN <<Upper(SeriesLetters(meter.model_name, 1))>> ELSE <<>>)

RECURSIVE StoreUnder(_, _, _)
StoreUnder(table, keys, record) ==
    IF keys = <<>> THEN table
    ELSE StoreUnder(Put(table, Head(keys), record), Tail(keys), record)

\* _process_meter for the meters of one series
RECURSIVE ProcessMeters(_, _, _)
ProcessMeters(table, series, i) ==
    IF i > Len(series.meters) THEN table
    ELSE ProcessMeters(StoreUnder(table, LookupKeys(series.meters[i]),
                                  NormalizeMeterData(series.meters[i], series)),
                       series, i + 1)

\* load_data: self.meters, in insertion order
RECURSIVE LoadData(_, _, _)
LoadData(table, cat, i) ==
    IF i > Len(cat) THEN table
    ELSE LoadData(ProcessMeters(table, cat[i], 1), cat, i + 1)

\* str.replace(" ", "")
RECURSIVE RemoveBlanks(_)
RemoveBlanks(s) ==
    IF s = "" THEN ""
    ELSE (IF Head(s) = " " THEN "" ELSE Head(s)) \o RemoveBlanks(Tail(s))

\* the first entry of the table whose key satisfies Test, as a list of at most one
FirstEntry(table, Test(_)) ==
    IF \E i \in 1..Len(table.o) : Test(table.o[i][1])
    THEN <<table.o[CHOOSE i \in 1..Len(table.o) :
                      /\ Test(table.o[i][1])
                      /\ \A j \in 1..(i - 1) : ~Test(table.o[j][1])][2]>>
    ELSE <<>>

\* the leading letters of re.match(r'([A-Za-z]+)(\d+)', model), "" without a match
SeriesPrefix(model) ==
    IF SkipAlpha(model, 1) > 1 /\ SkipAlpha(model, 1) <= Len(model)
       /\ IsDigit(Ch(model, SkipAlpha(model, 1)))
    THEN SubSeq(model, 1, SkipAlpha(model, 1) - 1)
    ELSE ""

\* find_meter after the exact lookup: the variants (the third, re.sub(r'(\d+)', r'\1', key),
\* is the key itself), the partial match, the series match
FindMeterLoose(table, model, model_key) ==
    IF HasKey(table, RemoveBlanks(model_key)) THEN Get(table, RemoveBlanks(model_key), JNull)
    ELSE IF HasKey(table, model_key \o "0") THEN Get(table, model_key \o "0", JNull)
    ELSE IF FirstEntry(table, LAMBDA key : Contains(key, model_key) \/ Contains(model_key, key))
            # <<>>
    THEN FirstEntry(table, LAMBDA key : Contains(key, model_key) \/ Contains(model_key, key))[1]
    ELSE IF SeriesPrefix(model) # ""
            /\ FirstEntry(table, LAMBDA key : StartsWith(key, Upper(SeriesPrefix(model)))) # <<>>
    THEN FirstEntry(table, LAMBDA key : StartsWith(key, Upper(SeriesPrefix(model))))[1]
    ELSE JNull

\* find_meter of fast_meter_db.py
FindMeter(table, model) ==
    IF HasKey(table, Upper(Strip(model))) THEN Get(table, Upper(Strip(model)), JNull)
    ELSE FindMeterLoose(table, model, Upper(Strip(model)))

\* --- the SQLite store of modular/database.py ---
MeterRow(id, meter, series) ==
    [id |-> id, model_name |-> meter.model_name, device_short_name |-> meter.short_name,
     series_name |-> series.key, product_name |-> series.product,
     accuracy |-> series.accuracy]

\* the Meters table, in rowid order, each row with its AccuracyClasses rows; a meter
\* without a short name has NULL ("") in device_short_name
RECURSIVE MetersTable(_, _, _)
MetersTable(cat, i, next_id) ==
    IF i > Len(cat) THEN <<>>
    ELSE [k \in 1..Len(cat[i].meters) |-> MeterRow(next_id + k - 1, cat[i].meters[k], cat[i])]
         \o MetersTable(cat, i + 1, next_id + Len(cat[i].meters))

\* column LIKE '%model%': containment, letter case ignored, never true of NULL
LikeContains(column, model) == column # "" /\ Contains(Upper(column), Upper(model))

NumQueries == 8

\* the WHERE clause of the k-th search query
QueryMatches(k, row, model) ==
    CASE k = 1 -> row.model_name = model
      [] k = 2 -> row.device_short_name # "" /\ row.device_short_name = model
      [] k = 3 -> row.series_name = model
      [] k = 4 -> Upper(row.model_name) = Upper(model)
      [] k = 5 -> row.device_short_name # "" /\ Upper(row.device_short_name) = Upper(model)
      [] k = 6 -> LikeContains(row.model_name, model)
      [] k = 7 -> LikeContains(row.device_short_name, model)
      [] k = 8 -> LikeContains(row.product_name, model)

\* the row the search queries settle on, tried in order, as a list of at most one
RECURSIVE SearchQueries(_, _, _)
SearchQueries(rows, model, k) ==
    IF k > NumQueries THEN <<>>
    ELSE IF \E i \in 1..Len(rows) : QueryMatches(k, rows[i], model)
    THEN <<rows[CHOOSE i \in 1..Len(rows) :
                   /\ QueryMatches(k, rows[i], model)
                   /\ \A j \in 1..(i - 1) : ~QueryMatches(k, rows[j], model)]>>
    ELSE SearchQueries(rows, model, k + 1)

\* dict(meter_row) with the related tables' rows
RowSpecs(row) ==
    JObj(<< <<"id", JNum(row.id)>>,
            <<"model_name", JStr(row.model_name)>>,
            <<"device_short_name",
              IF row.device_short_name = "" THEN JNull ELSE JStr(row.device_short_name)>>,
            <<"series_name", JStr(row.series_name)>>,
            <<"product_name", JStr(row.product_name)>>,
            <<"applications", JArr(<<>>)>>,
            <<"power_quality_features", JArr(<<>>)>>,
            <<"measurements", JArr(<<>>)>>,
            <<"accuracy_classes", JStrings(row.accuracy)>>,
            <<"measurement_accuracy", JObj(<<>>)>>,
            <<"communication_protocols", JObj(<<>>)>>,
            <<"data_recording", JArr(<<>>)>>,
            <<"certifications", JArr(<<>>)>>,
            <<"inputs_outputs", JArr(<<>>)>> >>)

\* find_meter_specs of modular/database.py on an existing database file
FindMeterSpecsSql(rows, model) ==
    IF SearchQueries(rows, Strip(model), 1) = <<>> THEN JObj(<<>>)
    ELSE RowSpecs(SearchQueries(rows, Strip(model), 1)[1])

(***************************************************************************)
(* The inputs of the finders and one action for each finder.               *)
(***************************************************************************)
Pm5000Series ==
    Series("PM5000_Series", "PM5000", <<"Class 0.5S">>,
           <<Meter("PM5320", "PM5320"), Meter("METSEPM5560", "PM5560")>>)

Pm8000Series == Series("PM8000_Series", "PM8000", <<"Class 0.2S">>, <<Meter("PM8240", "PM8240")>>)

Iem3000Series == Series("iEM3000_Series", "iEM3000", <<"Class 1">>, <<Meter("iEM3155", "iEM3155")>>)

Ion9000Series == Series("ION9000_Series", "ION9000", <<"Class 0.1S">>, <<Meter("ION9000", "")>>)

\* a series listed by a wildcard variant, without accuracy entries
WildcardSeries == Series("PM5000_Series", "PM5000", <<>>, <<Meter("PM55xx", "")>>)

Catalogues ==
    { <<>>,
      <<Pm5000Series, Pm8000Series, Iem3000Series>>,
      <<Ion9000Series, WildcardSeries>>,
      <<Iem3000Series, Pm5000Series>> }

ModelInputs ==
    { "PM5320", "pm5320", " PM5320 ", "PM 5320", "METSEPM5560", "PM5560", "PM8240", "PM8999",
      "PM5350",
      "iEM3155", "iEM9", "ION9000", "PM55xx", "PM5", "PM5000", "ZZZ9999", "P9", "Q" }

InitFind ==
    /\ catalogue \in Catalogues
    /\ model_number \in ModelInputs
    /\ finder = "none"
    /\ found = JNull
    /\ fd_pc = "idle"
    /\ (requirements = JNull /\ meter_specs = JNull /\ verdicts = <<>> /\ ai_overall = FALSE)
    /\ CompareIdle
    /\ RankIdle
    /\ AuxIdle

Answer(by, record) ==
    /\ finder' = by
    /\ found' = record
    /\ fd_pc' = "done"
    /\ UNCHANGED <<catalogue, model_number>>
    /\ UNCHANGED <<compareVars, rankVars, auxVars>>

\* MeterSpecificationComparison._find_meter_specs on the knowledge base
LookupKb ==
    /\ fd_pc = "idle"
    /\ Answer("kb", FindMeterSpecs(KbData(catalogue), model_number))

\* fast_meter_db.MeterDatabase.find_meter on the table load_data built
LookupFast ==
    /\ fd_pc = "idle"
    /\ Answer("fast", FindMeter(LoadData(JObj(<<>>), catalogue, 1), model_number))

\* modular.database.MeterDatabase.find_meter_specs on the Meters table
LookupSql ==
    /\ fd_pc = "idle"
    /\ Answer("sql", FindMeterSpecsSql(MetersTable(catalogue, 1, 1), model_number))

NextFind ==
    \/ LookupKb
    \/ LookupFast
    \/ LookupSql

SpecFind == InitFind /\ [][NextFind]_vars

(***************************************************************************)
(* The tender analysis: TenderAnalyzer.analyze_document of                 *)
(* databasingcode.py.  One loop iteration is one call of search_meters,    *)
(* computed here as a function of the record and of the responses the      *)
(* reasoning service gives during the call.  The response to the           *)
(* constrained call of _fallback_ranking is no argument: whatever it is,    *)
(* _fallback_ranking returns the rule-based selection.                      *)
(***************************************************************************)
\* search_meters' database_matches (lines 90-102)
DatabaseMatches(pool, response, req) ==
    IF pool = <<>> THEN <<>>
    ELSE IF PrimaryFails(response, pool) THEN EmergencyMatches(ModelGroups(pool, req))
    ELSE ConvertAiRankings(response.items, pool)

\* an outcome of a call: an exception that leaves the function, or the value returned
Raised == [raised |-> TRUE, matches |-> <<>>]

Returned(matches) == [raised |-> FALSE, matches |-> matches]

\* _combine_and_rank_matches and the slice of search_meters' last line
CombineOutcome(db_matches, kb, rerank, req) ==
    IF ~kb.is_list THEN Raised
    ELSE IF db_matches = <<>> \/ kb.items = <<>>
    THEN Returned(Limit(SortByScore(Adjusted(db_matches \o kb.items, req), <<>>), ReturnLimit))
    ELSE Returned(Limit(CombineBoth(db_matches \o kb.items, rerank, req), ReturnLimit))

\* search_meters(requirement), given the responses to the query-generation call, the
\* ranking call, the knowledge-base call and the re-rank call
SearchMeters(req, sql, ranking, kb_loaded, kb, rerank) ==
    CombineOutcome(DatabaseMatches(QueryRows(ConditionsFor(sql)), ranking, req.specifications),
                   KbSelection(kb_loaded, kb), rerank, req.specifications)

MeterRequirement(clause_id, meter_type, specifications) ==
    [clause_id |-> clause_id, meter_type |-> meter_type, specifications |-> specifications]

\* the result entry of one requirement: selected_meter is matches[0] or None (a list of at
\* most one match here), alternatives is matches[1:3]
ResultEntry(req, matches) ==
    [clause_id |-> req.clause_id,
     meter_type |-> req.meter_type,
     specifications |-> req.specifications,
     selected_meter |-> Limit(matches, 1),
     alternatives |-> SubSeq(matches, 2, IF Len(matches) < 3 THEN Len(matches) ELSE 3)]

\* the longest list of requirement records of a tender
MaxRecords == 2

RecordSamples ==
    { MeterRequirement("7.2", "Digital Power Meter", <<"basic energy metering">>),
      MeterRequirement("7.3", "Power Quality Meter", <<"harmonic analysis">>) }

Tenders == UNION { [1..n -> RecordSamples] : n \in 0..MaxRecords }

\* the responses of the reasoning service during one search: a call that raises, a response
\* without JSON, an empty list, a usable answer, an answer naming a model no store holds
AnalyzeSqlResponses ==
    { Raises, Json(<<Cond(<<"ModelNumber">>, "pm%")>>), Json(<<Cond(<<"ModelNumber">>, "zz%")>>) }

AnalyzeRankResponses ==
    { Raises, NoJson, Json(<<>>), Json(<<Ranking("PM5350", 85, 85)>>),
      Json(<<Ranking(Hallucinated, 85, 85)>>) }

AnalyzeKbResponses == { Raises, NoJson, Json(<<>>), Json(<<KbMatch("PM5560", 90)>>) }

AnalyzeRerankResponses == { Raises, NoJson, Json(<<>>), Json(<<Rerank(1, 95)>>) }

InitAnalyze ==
    /\ records \in Tenders
    /\ ad_results = <<>>
    /\ ad_pc = "idle"
    /\ (requirements = JNull /\ meter_specs = JNull /\ verdicts = <<>> /\ ai_overall = FALSE)
    /\ CompareIdle
    /\ RankIdle
    /\ FindIdle
    /\ ExtractIdle
    /\ CallIdle

\* read_document and extract_meter_requirements have run: the loop starts
StartAnalysis ==
    /\ ad_pc = "idle"
    /\ ad_pc' = "loop"
    /\ UNCHANGED <<records, ad_results>>
    /\ UNCHANGED <<compareVars, rankVars, findVars, extractVars, callVars>>

\* what one iteration does with the outcome of search_meters: an exception is caught
\* nowhere in analyze_document
Record(req, outcome) ==
    IF outcome.raised
    THEN /\ ad_pc' = "raised"
         /\ UNCHANGED ad_results
    ELSE /\ ad_results' = Append(ad_results, ResultEntry(req, outcome.matches))
         /\ UNCHANGED ad_pc

\* one iteration of the loop over the requirement records
ProcessRequirement ==
    /\ ad_pc = "loop"
    /\ Len(ad_results) < Len(records)
    /\ \E sql \in AnalyzeSqlResponses : \E ranking \in AnalyzeRankResponses :
       \E kb_loaded \in BOOLEAN : \E kb \in AnalyzeKbResponses :
       \E rerank \in AnalyzeRerankResponses :
          Record(records[Len(ad_results) + 1],
                 SearchMeters(records[Len(ad_results) + 1], sql, ranking, kb_loaded, kb, rerank))
    /\ UNCHANGED records
    /\ UNCHANGED <<compareVars, rankVars, findVars, extractVars, callVars>>

\* the loop is over: export_to_txt, return results
ReturnResults ==
    /\ ad_pc = "loop"
    /\ Len(ad_results) = Len(records)
    /\ ad_pc' = "done"
    /\ UNCHANGED <<records, ad_results>>
    /\ UNCHANGED <<compareVars, rankVars, findVars, extractVars, callVars>>

NextAnalyze ==
    \/ StartAnalysis
    \/ ProcessRequirement
    \/ ReturnResults

SpecAnalyze == InitAnalyze /\ [][NextAnalyze]_vars

(***************************************************************************)
(* The requirement extractor: DocumentParser.extract_meter_requirements    *)
(* and DocumentParser._parse_meter_section of databasingcode.py.  The      *)
(* document is held as the list of its lines (text.split('\n')); the       *)
(* content of a section goes into the prompt and into the record's content *)
(* field only and is left out.  A response of the reasoning service is a   *)
(* record: kind "raise" (the call raises), "text" (no {...} in the text),  *)
(* "invalid" (json.loads raises on the {...} found) or "json" (a parsed    *)
(* object, whose entries are the other fields).                            *)
(***************************************************************************)
\* index after the maximal run of (\.\d+) groups that starts at i
RECURSIVE SkipGroups(_, _)
SkipGroups(s, i) ==
    IF MatchAt(s, i, ".") /\ SkipDigits(s, i + 1) > i + 1
    THEN SkipGroups(s, SkipDigits(s, i + 1))
    ELSE i

\* where \d+ starts: after the optional letter
NumberStart(s) == IF s # "" /\ IsAlpha(Ch(s, 1)) THEN 2 ELSE 1

\* index after the longest match of [A-Za-z]?\d+(\.\d+)*
IdEnd(s) == SkipGroups(s, SkipDigits(s, NumberStart(s)))

\* a character of ([)\.]|\s)
IsSep(c) == c \in {")", "."} \/ IsWs(c)

\* the last "." before index e
RECURSIVE LastDot(_, _)
LastDot(s, e) == IF e <= 1 THEN 0 ELSE IF Ch(s, e - 1) = "." THEN e - 1 ELSE LastDot(s, e - 1)

NoSection == [found |-> FALSE, section_id |-> "", title |-> ""]

\* the match that ends its identifier before index e, where a separator stands
SectionAt(s, e) ==
    [found |-> TRUE, section_id |-> SubSeq(s, 1, e - 1),
     title |-> SubSeq(s, SkipWs(s, e + 1), Len(s))]

\* section_pattern.match(s): group(1) and group(4) or "".  The identifier is matched
\* greedily; when no separator follows it, the engine gives back the last (\.\d+) group,
\* whose dot then is the separator ("7.2" alone is section "7" with title "2")
SectionMatch(s) ==
    IF SkipDigits(s, NumberStart(s)) = NumberStart(s) THEN NoSection
    ELSE IF IdEnd(s) <= Len(s) /\ IsSep(Ch(s, IdEnd(s))) THEN SectionAt(s, IdEnd(s))
    ELSE IF IdEnd(s) > SkipDigits(s, NumberStart(s)) THEN SectionAt(s, LastDot(s, IdEnd(s)))
    ELSE NoSection

\* set(str(c).strip() for c in manual_clauses)
ManualClausesSet(clauses) == { Strip(clauses[i]) : i \in 1..Len(clauses) }

ClausePosition(section_id, idx, title) == [section_id |-> section_id, idx |-> idx, title |-> title]

\* the loop over the lines: the selected clauses in line order (the sort by line index
\* leaves the list as the loop built it)
RECURSIVE ClausePositions(_, _, _)
ClausePositions(doc, selected, idx) ==
    IF idx > Len(doc) THEN <<>>
    ELSE (IF SectionMatch(Strip(doc[idx])).found
             /\ SectionMatch(Strip(doc[idx])).section_id \in selected
          THEN <<ClausePosition(SectionMatch(Strip(doc[idx])).section_id, idx - 1,
                                Strip(SectionMatch(Strip(doc[idx])).title))>>
          ELSE <<>>) \o ClausePositions(doc, selected, idx + 1)

\* end_idx of section i: the line index of the next selected clause, or len(lines)
EndIdx(positions, i, lines) ==
    IF i + 1 <= Len(positions) THEN positions[i + 1].idx ELSE Len(lines)

\* the section handed to _parse_meter_section: clause_id, title and the content
\* lines[start_idx:end_idx] (the lines that "\n".join puts together, kept as a list)
Section(positions, i, lines) ==
    [section_id |-> positions[i].section_id,
     title      |-> positions[i].title,
     content    |-> SubSeq(lines, positions[i].idx + 1, EndIdx(positions, i, lines))]

\* meter_type_patterns, in the order of the dict
meter_type_patterns ==
    << <<"Power Quality Meter", {"power quality meter", "pqm", "quality"}>>,
       <<"Digital Power Meter", {"digital power meter", "dpm", "digital meter"}>>,
       <<"Multi-Function Meter", {"multi-function", "multifunction", "multi function"}>>,
       <<"Energy Meter", {"energy meter", "billing meter", "revenue meter"}>>,
       <<"Basic Power Meter", {"basic meter", "basic power"}>> >>

\* the first meter type, from entry k on, one of whose patterns the title holds; "" is None
RECURSIVE FirstTypeIn(_, _)
FirstTypeIn(title_lower, k) ==
    IF k > Len(meter_type_patterns) THEN ""
    ELSE IF \E pattern \in meter_type_patterns[k][2] : Contains(title_lower, pattern)
    THEN meter_type_patterns[k][1]
    ELSE FirstTypeIn(title_lower, k + 1)

\* explicit_meter_type after both loops: the second loop ("specification" in the title)
\* repeats the test of the first and finds the same type
ExplicitMeterType(title) == FirstTypeIn(Lower(title), 1)

\* re.sub(r'[^\w\s]', '', s)
RECURSIVE KeepWordChars(_)
KeepWordChars(s) ==
    IF s = "" THEN ""
    ELSE (IF IsAlpha(Head(s)) \/ IsDigit(Head(s)) \/ Head(s) = "_" \/ IsWs(Head(s))
          THEN Head(s) ELSE "") \o KeepWordChars(Tail(s))

\* index after the run of non-blank characters that starts at i
RECURSIVE SkipWord(_, _)
SkipWord(s, i) == IF i <= Len(s) /\ ~IsWs(Ch(s, i)) THEN SkipWord(s, i + 1) ELSE i

\* set(s.split()) from index i on
RECURSIVE Words(_, _)
Words(s, i) ==
    IF SkipWs(s, i) > Len(s) THEN {}
    ELSE {SubSeq(s, SkipWs(s, i), SkipWord(s, SkipWs(s, i)) - 1)}
         \cup Words(s, SkipWord(s, SkipWs(s, i)))

\* simple_tokens
SimpleTokens(spec) == Words(KeepWordChars(Lower(spec)), 1)

\* len(simple_tokens.intersection(prev)) > len(simple_tokens) * 0.7
TooSimilar(tokens, prev) == Cardinality(tokens \cap prev) * 10 > Cardinality(tokens) * 7

\* the duplicate filter over the specifications
RECURSIVE DropSimilar(_, _)
DropSimilar(specs, seen_keywords) ==
    IF specs = <<>> THEN <<>>
    ELSE IF \E prev \in seen_keywords : TooSimilar(SimpleTokens(Head(specs)), prev)
    THEN DropSimilar(Tail(specs), seen_keywords)
    ELSE <<Head(specs)>>
         \o DropSimilar(Tail(specs), seen_keywords \cup {SimpleTokens(Head(specs))})

\* unique_specs
UniqueSpecs(specs, has_sufficient) ==
    IF has_sufficient /\ specs # <<>> THEN DropSimilar(specs, {}) ELSE specs

\* a parsed object: its specifications ([] when the key is absent), has_sufficient_specs
\* (False when absent) and its meter_type as a list of one (empty when absent)
ParsingResult(specs, has_sufficient, meter_type) ==
    [kind |-> "json", specifications |-> specs, has_sufficient_specs |-> has_sufficient,
     meter_type |-> meter_type]

ParseRaises == [kind |-> "raise", specifications |-> <<>>, has_sufficient_specs |-> FALSE,
                meter_type |-> <<>>]

ParseNoJson == [ParseRaises EXCEPT !.kind = "text"]

ParseInvalidJson == [ParseRaises EXCEPT !.kind = "invalid"]

\* meter_type with the preference turned round: the service's type before the title's
MeterTypeServiceFirst(title, response) ==
    IF response.meter_type # <<>> THEN response.meter_type[1]
    ELSE IF ExplicitMeterType(title) # "" THEN ExplicitMeterType(title)
    ELSE "Power Meter"

\* meter_type: the type of the title, else the service's, else 'Power Meter'
MeterTypeFor(title, response) ==
    IF ExplicitMeterType(title) # "" THEN ExplicitMeterType(title)
    ELSE IF response.meter_type # <<>> THEN response.meter_type[1]
    ELSE "Power Meter"

\* a parser that answers every section, with an empty specification list when the
\* response gave no parsed object
ParseMeterSectionAlways(position, response) ==
    <<MeterRequirement(position.section_id, MeterTypeFor(position.title, response),
                       UniqueSpecs(response.specifications, response.has_sufficient_specs))>>

\* _parse_meter_section: the record as a list of one, or None as the empty list.  A raise
\* of the call or of json.loads is caught; for a text without {...} the print after the
\* if block reads unique_specs, which is unbound, and the UnboundLocalError is caught too
ParseMeterSection(position, response) ==
    IF response.kind # "json" THEN <<>>
    ELSE <<MeterRequirement(position.section_id, MeterTypeFor(position.title, response),
                            UniqueSpecs(response.specifications,
                                        response.has_sufficient_specs))
           @@ [content |-> position.content]>>

\* the longest specification list the reasoning service returns
MaxSpecs == 2

SpecSamples == {"Accuracy Class 0.5S", "accuracy: class 0.5S (IEC)", "RS485 Modbus"}

SpecLists == UNION { [1..n -> SpecSamples] : n \in 0..MaxSpecs }

ParseResponses ==
    {ParseRaises, ParseNoJson, ParseInvalidJson}
    \cup { ParsingResult(specs, has_sufficient, meter_type) :
              specs \in SpecLists, has_sufficient \in BOOLEAN,
              meter_type \in {<<>>, <<"Energy Meter">>} }

Documents ==
    { <<"7.2 Digital Power Meter", "- Accuracy Class 0.5S", "- RS485 Modbus">>,
      <<"Tender for metering", "7.2 Digital Power Meter", "- Class 0.5S",
        "7.3) Power Quality Meter", "- Harmonics", "8.1 Communication">>,
      <<"  7.2.  Metering  ", "7.2.1 Display", "7.3", "72 units">>,
      <<"6.0 POWER QUALITY METER SPECIFICATIONS", "A7.2 digital meter with quality display">>,
      <<"No numbered clause">> }

ClauseLists == { <<"7.2">>, <<" 7.2 ", "7.3">>, <<"6.0", "A7.2", "7">>, <<>> }

InitExtract ==
    /\ document \in Documents
    /\ manual_clauses \in ClauseLists
    /\ clause_positions = <<>>
    /\ ex_responses = <<>>
    /\ ex_requirements = <<>>
    /\ ex_pc = "idle"
    /\ (requirements = JNull /\ meter_specs = JNull /\ verdicts = <<>> /\ ai_overall = FALSE)
    /\ CompareIdle
    /\ RankIdle
    /\ FindIdle
    /\ AnalyzeIdle
    /\ CallIdle

\* the first loop of extract_meter_requirements
FindClauses ==
    /\ ex_pc = "idle"
    /\ clause_positions' = ClausePositions(document, ManualClausesSet(manual_clauses), 1)
    /\ ex_pc' = "sections"
    /\ UNCHANGED <<document, manual_clauses, ex_responses, ex_requirements>>
    /\ UNCHANGED <<compareVars, rankVars, findVars, analyzeVars, callVars>>

\* one iteration of the second loop: _parse_meter_section and `if req`, which holds for
\* every MeterRequirement (a dataclass instance is true whatever its fields)
ParseSection ==
    /\ ex_pc = "sections"
    /\ Len(ex_responses) < Len(clause_positions)
    /\ \E response \in ParseResponses :
          /\ ex_responses' = Append(ex_responses, response)
          /\ ex_requirements' =
                ex_requirements
                \o ParseMeterSection(Section(clause_positions, Len(ex_responses) + 1,
                                             document), response)
    /\ UNCHANGED <<document, manual_clauses, clause_positions, ex_pc>>
    /\ UNCHANGED <<compareVars, rankVars, findVars, analyzeVars, callVars>>

\* return requirements
ReturnRequirements ==
    /\ ex_pc = "sections"
    /\ Len(ex_responses) = Len(clause_positions)
    /\ ex_pc' = "done"
    /\ UNCHANGED <<document, manual_clauses, clause_positions, ex_responses, ex_requirements>>
    /\ UNCHANGED <<compareVars, rankVars, findVars, analyzeVars, callVars>>

NextExtract ==
    \/ FindClauses
    \/ ParseSection
    \/ ReturnRequirements

SpecExtract == InitExtract /\ [][NextExtract]_vars

(***************************************************************************)
(* process_with_timeout: the caller starts a worker thread for the         *)
(* reasoning call and waits for it with a bounded join.  The caller and    *)
(* the worker interleave; time is counted in seconds and passes only       *)
(* while the caller is blocked in a join.                                  *)
(***************************************************************************)
CallReturns(value) == [kind |-> "return", value |-> value]

CallRaises(exception) == [kind |-> "raise", value |-> <<exception>>]

\* the second the caller gives the worker "to clean up"
GraceSeconds == 1

MaxTimeout == 3

Timeouts == 1..MaxTimeout

\* what ollama.chat returns, and what it raises
ChatResponses == {"response with JSON", "response without JSON"}

ChatErrors == {"ResponseError", "ConnectionError"}

\* a thread that is never alive to its caller
IsAliveNever(state) == FALSE

\* thread.is_alive()
IsAlive(state) == state = "running"

\* thread.join(timeout) returns: the worker is no longer alive, or the wait is over
JoinOver == ~IsAlive(pt_thread) \/ pt_now >= pt_deadline

InitCall ==
    /\ pt_timeout \in Timeouts
    /\ pt_now = 0
    /\ pt_deadline = 0
    /\ pt_thread = "unstarted"
    /\ pt_finished_at = -1
    /\ pt_result = <<>>
    /\ pt_exception = <<>>
    /\ pt_pc = "idle"
    /\ pt_outcome = NoOutcome
    /\ (requirements = JNull /\ meter_specs = JNull /\ verdicts = <<>> /\ ai_overall = FALSE)
    /\ CompareIdle
    /\ RankIdle
    /\ FindIdle
    /\ AnalyzeIdle
    /\ ExtractIdle

\* result = [None]; exception = [None]; thread.start(); the caller enters join(timeout)
StartWorker ==
    /\ pt_pc = "idle"
    /\ pt_result' = <<>>
    /\ pt_exception' = <<>>
    /\ pt_thread' = "running"
    /\ pt_deadline' = pt_now + pt_timeout
    /\ pt_pc' = "join"
    /\ UNCHANGED <<pt_timeout, pt_now, pt_finished_at, pt_outcome>>
    /\ UNCHANGED <<compareVars, rankVars, findVars, analyzeVars, extractVars>>

\* target(): ollama.chat returned and result[0] is set
WorkerReturns ==
    /\ pt_thread = "running"
    /\ \E response \in ChatResponses : pt_result' = <<response>>
    /\ pt_thread' = "finished"
    /\ pt_finished_at' = pt_now
    /\ UNCHANGED <<pt_timeout, pt_now, pt_deadline, pt_exception, pt_pc, pt_outcome>>
    /\ UNCHANGED <<compareVars, rankVars, findVars, analyzeVars, extractVars>>

\* target(): ollama.chat raised and exception[0] is set
WorkerCatches ==
    /\ pt_thread = "running"
    /\ \E e \in ChatErrors : pt_exception' = <<e>>
    /\ pt_thread' = "finished"
    /\ pt_finished_at' = pt_now
    /\ UNCHANGED <<pt_timeout, pt_now, pt_deadline, pt_result, pt_pc, pt_outcome>>
    /\ UNCHANGED <<compareVars, rankVars, findVars, analyzeVars, extractVars>>

\* a second passes while the caller is blocked in a join
Tick ==
    /\ pt_pc \in {"join", "grace"}
    /\ pt_now < pt_deadline
    /\ pt_now' = pt_now + 1
    /\ UNCHANGED <<pt_timeout, pt_deadline, pt_thread, pt_finished_at, pt_result,
                   pt_exception, pt_pc, pt_outcome>>
    /\ UNCHANGED <<compareVars, rankVars, findVars, analyzeVars, extractVars>>

\* thread.join(timeout) returns
JoinReturns ==
    /\ pt_pc = "join"
    /\ JoinOver
    /\ pt_pc' = "check"
    /\ UNCHANGED <<pt_timeout, pt_now, pt_deadline, pt_thread, pt_finished_at, pt_result,
                   pt_exception, pt_outcome>>
    /\ UNCHANGED <<compareVars, rankVars, findVars, analyzeVars, extractVars>>

\* if thread.is_alive(): the caller enters thread.join(1)
CheckAlive ==
    /\ pt_pc = "check"
    /\ IF IsAlive(pt_thread)
       THEN /\ pt_pc' = "grace"
            /\ pt_deadline' = pt_now + GraceSeconds
       ELSE /\ pt_pc' = "deliver"
            /\ UNCHANGED pt_deadline
    /\ UNCHANGED <<pt_timeout, pt_now, pt_thread, pt_finished_at, pt_result, pt_exception,
                   pt_outcome>>
    /\ UNCHANGED <<compareVars, rankVars, findVars, analyzeVars, extractVars>>

\* thread.join(1) returns; raise TimeoutError
RaiseTimeout ==
    /\ pt_pc = "grace"
    /\ JoinOver
    /\ pt_outcome' = CallRaises("TimeoutError")
    /\ pt_pc' = "raised"
    /\ UNCHANGED <<pt_timeout, pt_now, pt_deadline, pt_thread, pt_finished_at, pt_result,
                   pt_exception>>
    /\ UNCHANGED <<compareVars, rankVars, findVars, analyzeVars, extractVars>>

\* if exception[0]: raise exception[0]; return result[0]
Deliver ==
    /\ pt_pc = "deliver"
    /\ IF pt_exception # <<>>
       THEN /\ pt_outcome' = CallRaises(pt_exception[1])
            /\ pt_pc' = "raised"
       ELSE /\ pt_outcome' = CallReturns(pt_result)
            /\ pt_pc' = "returned"
    /\ UNCHANGED <<pt_timeout, pt_now, pt_deadline, pt_thread, pt_finished_at, pt_result,
                   pt_exception>>
    /\ UNCHANGED <<compareVars, rankVars, findVars, analyzeVars, extractVars>>

\* the steps of the caller, and the passing of time
CallerNext == StartWorker \/ JoinReturns \/ CheckAlive \/ RaiseTimeout \/ Deliver

NextCall ==
    \/ StartWorker
    \/ WorkerReturns
    \/ WorkerCatches
    \/ Tick
    \/ JoinReturns
    \/ CheckAlive
    \/ RaiseTimeout
    \/ Deliver

SpecCall == InitCall /\ [][NextCall]_vars

\* the caller's thread is scheduled and time passes; nothing makes the worker finish
SpecCallFair == SpecCall /\ WF_vars(CallerNext) /\ WF_vars(Tick)

(***************************************************************************)
(* Properties of the comparator.                                           *)
(***************************************************************************)
\* the items of the report compare returned
ReturnedItems == IF pc = "done" /\ IsObj(result) THEN AnalysisItems(result) ELSE <<>>

\* the items of the returned report that answer requirement i
ItemsFor(i) ==
    { it \in Range(ReturnedItems) : Get(it, "requirement", JStr("")) = requirements.a[i] }

\* requirement text and spec_value each carry a class / a percentage, the meter's not larger
BetterClass(req, spec) == NotWorse(ClassSearch(Lower(req)), ClassSearch(Lower(spec)))

BetterPct(req, spec) == NotWorse(PctSearch(Lower(req)), PctSearch(Lower(spec)))

\* both carry a percentage and the meter's is strictly larger
WorsePct(req, spec) ==
    /\ PctSearch(Lower(req)).found /\ PctSearch(Lower(spec)).found
    /\ ~BetterPct(req, spec)

\* C1: every item of the report compare returns whose requirement and spec_value each
\* carry an accuracy class with the meter's class number <= the required one has
\* complies true, whatever the service's verdict and for a list of any length
C1_BetterClassComplies ==
    \A i \in 1..Len(ReturnedItems) :
        BetterClass(Get(ReturnedItems[i], "requirement", JStr("")).s,
                    Get(ReturnedItems[i], "spec_value", JStr("")).s)
            => Get(ReturnedItems[i], "complies", JBool(FALSE)) = JBool(TRUE)

\* the justification states a correction and names the two percentages
NamesCorrection(justification, req, spec) ==
    /\ Contains(justification, "CORRECTED")
    /\ Contains(justification, "+-" \o FloatStr(ParseFloat(PctSearch(Lower(spec)).g1)) \o "%")
    /\ Contains(justification, "+-" \o FloatStr(ParseFloat(PctSearch(Lower(req)).g1)) \o "%")

\* C2: every item of the returned report whose requirement and spec_value carry
\* percentages with the meter's <= the required one, and which the service marked
\* non-compliant, has complies true and a justification that states the correction and
\* names both percentages
C2_BetterPctCorrected ==
    \A i \in 1..Len(verdicts) :
        (~verdicts[i].complies /\ BetterPct(requirements.a[i].s, verdicts[i].spec_value))
            => \A it \in ItemsFor(i) :
                  /\ Get(it, "complies", JBool(FALSE)) = JBool(TRUE)
                  /\ NamesCorrection(Get(it, "justification", JStr("")).s,
                                     requirements.a[i].s, verdicts[i].spec_value)

\* the returned item is the service's raw item for requirement i, untouched
LeftAsReceived(it, i) == it = RawItem(requirements.a[i].s, verdicts[i])

\* C3 as claimed: every item whose meter percentage is strictly larger than the required
\* one and which the service marked non-compliant is left uncorrected (complies false,
\* justification as received), whatever its justification text
C3_WorsePctNeverCorrected ==
    \A i \in 1..Len(verdicts) :
        (~verdicts[i].complies /\ WorsePct(requirements.a[i].s, verdicts[i].spec_value))
            => \A it \in ItemsFor(i) : LeftAsReceived(it, i)

\* C3 as amended: such an item is left uncorrected provided its justification holds none
\* of the superiority phrases and its texts do not both carry an accuracy class with the
\* meter's class number <= the required one
C3_WorsePctUncorrectedUnlessOtherBlock ==
    \A i \in 1..Len(verdicts) :
        ( /\ ~verdicts[i].complies
          /\ WorsePct(requirements.a[i].s, verdicts[i].spec_value)
          /\ ~HasSuperiorityPhrase(Lower(verdicts[i].justification))
          /\ ~BetterClass(requirements.a[i].s, verdicts[i].spec_value) )
            => \A it \in ItemsFor(i) : LeftAsReceived(it, i)

\* the single-batch path returned a report holding such an item
C3_Witness ==
    /\ pc = "done" /\ path = "batch"
    /\ \E i \in 1..Len(verdicts) :
          /\ ~verdicts[i].complies
          /\ WorsePct(requirements.a[i].s, verdicts[i].spec_value)
          /\ ~HasSuperiorityPhrase(Lower(verdicts[i].justification))
          /\ ~BetterClass(requirements.a[i].s, verdicts[i].spec_value)
          /\ ItemsFor(i) # {}

\* C4: every report compare returns with a non-empty compliance_analysis has
\* overall_compliance true exactly when compliant / total >= 0.8, corrected or not,
\* whatever the service reported, in both paths
C4_OverallIsThreshold ==
    ReturnedItems # <<>>
        => Get(result, "overall_compliance", JNull)
               = JBool(MeetsThreshold(CompliantCount(ReturnedItems), Len(ReturnedItems)))

\* the (requirement, complies) pairs of a report
VerdictSet(report) ==
    { <<Get(it, "requirement", JNull), Get(it, "complies", JNull)>>
        : it \in Range(AnalysisItems(report)) }

\* C5: when the chunked path has returned and the service stated every raw verdict
\* well-formed, the report holds the same set of (requirement, complies) verdicts as
\* single-batch processing of the same list under the same raw verdicts
C5_ChunkedEqualsBatch ==
    (pc = "done" /\ path = "chunked" /\ \A k \in 1..Len(log) : log[k] \in {"clean", "sleep"})
        => \A r \in SingleBatchResults(AiChat(1, Len(requirements.a), "clean")) :
              VerdictSet(r) = VerdictSet(result)

\* C6: compare on an empty or missing requirement list or meter specification returns a
\* result carrying an 'error' key and calls the reasoning service not once
C6_MissingInputIsError ==
    (pc = "done" /\ (~Truthy(requirements) \/ ~Truthy(meter_specs)))
        => /\ IsObj(result) /\ HasKey(result, "error")
           /\ log = <<>>

\* C7: a report with an empty compliance_analysis comes out of the JSON extraction only as
\* the flagged fallback: overall_compliance false and the could-not-parse issue
C7_EmptyAnalysisIsFlagged ==
    (extracted # JNull /\ AnalysisItems(extracted) = <<>>) => extracted = FallbackResponse

\* the model numbers named by a ranking response's valid rankings, with their scores
NamedRanking(rankings) == [i \in 1..Len(rankings) |-> <<rankings[i].model, rankings[i].score>>]

RankedAs(matches) == [i \in 1..Len(matches) |-> <<matches[i].model_number, matches[i].score>>]

\* the primary response names models, and none of them is a candidate
PrimaryAllAbsent ==
    /\ primary.kind = "json"
    /\ primary.items # <<>>
    /\ \A i \in 1..Len(primary.items) : ~InPool(candidates, primary.items[i].model)

\* C8: once search_meters has returned, every returned model number is a ModelNumber of
\* the candidate pool fetched for the requirement or a member of the known valid models.
C8_ReturnedModelsAreKnown ==
    rk_pc = "done" =>
        \A i \in 1..Len(returned) :
            \/ InPool(candidates, returned[i].model_number)
            \/ returned[i].model_number \in valid_models

\* C9: once the database ranker has finished on a primary response whose models are all
\* absent from the pool, the secondary call was issued; the rule-based selection was used
\* only if the secondary response raised, had no JSON or named no valid candidate; and if
\* it named a valid candidate, database_matches are its valid rankings, in its order and
\* with its scores.
C9_SecondaryRankingIsReturned ==
    (rk_pc \in {"kb", "combine", "done", "raised"} /\ PrimaryAllAbsent) =>
        /\ secondary # NoResponse
        /\ ValidRankings(secondary.items, candidates) # <<>> =>
              /\ \A k \in 1..Len(calls) : calls[k] # "rule_based"
              /\ RankedAs(database_matches) =
                     NamedRanking(ValidRankings(secondary.items, candidates))

\* every name the stores hold: series keys, series products, model names, short names
StoredNames(cat) ==
    UNION { {cat[i].key, cat[i].product}
            \cup { cat[i].meters[k].model_name : k \in 1..Len(cat[i].meters) }
            \cup { cat[i].meters[k].short_name : k \in 1..Len(cat[i].meters) } :
            i \in 1..Len(cat) } \ {""}

\* a name as it is compared: without blanks, in upper case
Canonical(name) == Upper(RemoveBlanks(name))

\* the family letters of a name: its first run of letters that a digit follows
FamilyOf(name) == SeriesLetters(Canonical(name), 1)

\* a model number matches a stored name if, letter case and blanks aside, one contains
\* the other, or if both have the same family letters
MatchesName(model, name) ==
    \/ Contains(Canonical(name), Canonical(model))
    \/ Contains(Canonical(model), Canonical(name))
    \/ FamilyOf(model) # "" /\ FamilyOf(model) = FamilyOf(name)

MatchesNothing(model, cat) ==
    Canonical(model) # "" /\ \A name \in StoredNames(cat) : ~MatchesName(model, name)

NoRecord(record) == record = JNull \/ record = JObj(<<>>)

\* the accuracy entries of a returned record
AccuracyEntries(record) ==
    IF HasKey(record, "performance_and_accuracy")
    THEN Range(Get(record, "performance_and_accuracy", JArr(<<>>)).a)
    ELSE Range(Get(record, "accuracy_classes", JArr(<<>>)).a)

\* C10: a finished find for a model number that matches no stored model name, short name,
\* series or variant returned no record; a finished find for a model number stored
\* exactly returned a record that holds every accuracy entry of that model's series.
C10_FindContract ==
    fd_pc = "done" =>
        /\ MatchesNothing(model_number, catalogue) => NoRecord(found)
        /\ \A i \in 1..Len(catalogue) : \A k \in 1..Len(catalogue[i].meters) :
              catalogue[i].meters[k].model_name = model_number =>
                  /\ ~NoRecord(found)
                  /\ Range(JStrings(catalogue[i].accuracy).a) \subseteq AccuracyEntries(found)

(***************************************************************************)
(* Properties of the tender analysis.                                      *)
(***************************************************************************)
\* C11: a failure confined to one requirement record does not abort analyze_document:
\* whenever the run has ended, every requirement record has its own result entry
C11_FailureIsLocal ==
    ad_pc \in {"done", "raised"} =>
        /\ Len(ad_results) = Len(records)
        /\ \A i \in 1..Len(records) : ad_results[i].clause_id = records[i].clause_id

\* C12: the report compare returns holds exactly one item for each requirement string
\* passed in (the requirement strings of a list are distinct): as many items as
\* requirements, and every requirement answered
C12_OneItemPerRequirement ==
    (pc = "done" /\ IsObj(result) /\ ~HasKey(result, "error")) =>
        /\ Len(ReturnedItems) = Len(requirements.a)
        /\ \A i \in 1..Len(requirements.a) : ItemsFor(i) # {}

\* the areas_exceeding_requirements of the report compare returned
ReturnedAreas ==
    IF pc = "done" /\ IsObj(result) /\ IsArr(Get(result, "areas_exceeding_requirements", JNull))
    THEN Get(result, "areas_exceeding_requirements", JNull).a
    ELSE <<>>

\* both texts carry an accuracy class and the meter's class number is strictly smaller
StrictlyBetterClass(req, spec) ==
    /\ NotWorse(ClassSearch(Lower(req)), ClassSearch(Lower(spec)))
    /\ ~NotWorse(ClassSearch(Lower(spec)), ClassSearch(Lower(req)))

\* an entry of the areas that names the item's requirement and its spec value
ReferencedIn(areas, item) ==
    \E k \in 1..Len(areas) :
        /\ IsStr(areas[k])
        /\ Contains(areas[k].s, Get(item, "requirement", JStr("")).s)
        /\ Contains(areas[k].s, Get(item, "spec_value", JStr("")).s)

\* C13: every item of the returned report whose meter accuracy class is better than the
\* required class is referenced by an entry of areas_exceeding_requirements, and
\* areas_exceeding_requirements holds no entry twice
C13_ExceedingAreasListed ==
    /\ \A k \in 1..Len(ReturnedItems) :
          ( /\ IsStr(Get(ReturnedItems[k], "requirement", JNull))
            /\ IsStr(Get(ReturnedItems[k], "spec_value", JNull))
            /\ StrictlyBetterClass(Get(ReturnedItems[k], "requirement", JNull).s,
                                   Get(ReturnedItems[k], "spec_value", JNull).s) )
              => ReferencedIn(ReturnedAreas, ReturnedItems[k])
    /\ \A i, j \in 1..Len(ReturnedAreas) : ReturnedAreas[i] = ReturnedAreas[j] => i = j

(***************************************************************************)
(* Properties of the requirement extractor.                                *)
(***************************************************************************)
\* the number of the first k parsed sections that the service answered with a JSON object
RECURSIVE JsonCount(_)
JsonCount(k) ==
    IF k = 0 THEN 0 ELSE JsonCount(k - 1) + (IF ex_responses[k].kind = "json" THEN 1 ELSE 0)

\* the clause identifiers of the first k parsed sections answered with a JSON object
RECURSIVE AnsweredIds(_)
AnsweredIds(k) ==
    IF k = 0 THEN <<>>
    ELSE AnsweredIds(k - 1)
         \o (IF ex_responses[k].kind = "json" THEN <<clause_positions[k].section_id>> ELSE <<>>)

\* C14: a section whose reasoning call raised or whose response held no parseable JSON
\* structure has no record (the records are those of the sections answered with a JSON
\* object, in order), and extraction goes on: when extract returns, every selected
\* section has been parsed
C14_FailedSectionIsDropped ==
    /\ [i \in 1..Len(ex_requirements) |-> ex_requirements[i].clause_id]
          = AnsweredIds(Len(ex_responses))
    /\ ex_pc = "done" => Len(ex_responses) = Len(clause_positions)

\* extract returned after a section failed and a later section gave a record
C14_Witness ==
    /\ ex_pc = "done"
    /\ \E k \in 1..Len(ex_responses) : \E j \in (k + 1)..Len(ex_responses) :
          /\ ex_responses[k].kind # "json"
          /\ ex_responses[j].kind = "json"
          /\ ex_requirements = <<ex_requirements[1]>>
          /\ ex_requirements[1].clause_id = clause_positions[j].section_id

\* C15: every record of the sequence extract returns has at least one specification
C15_RecordsHaveSpecifications ==
    \A i \in 1..Len(ex_requirements) : ex_requirements[i].specifications # <<>>

\* the meter types one of whose keywords the lower-cased title holds
TitleTypes(title_lower) ==
    { meter_type_patterns[k][1] : k \in { n \in 1..Len(meter_type_patterns) :
          \E pattern \in meter_type_patterns[n][2] : Contains(title_lower, pattern) } }

\* a record whose title names types carries one of them
TitleDecides(types, record) == types # {} => record.meter_type \in types

\* the selected clause 7.2 stands in the document once, as the header line
\* '7.2 Digital Power Meter', and the service answered it with a JSON object
HeaderScenario ==
    /\ ex_pc = "done"
    /\ \E k \in 1..Len(clause_positions) :
          /\ clause_positions[k].section_id = "7.2"
          /\ Strip(document[clause_positions[k].idx + 1]) = "7.2 Digital Power Meter"
          /\ ex_responses[k].kind = "json"
          /\ \A j \in 1..Len(clause_positions) : clause_positions[j].section_id = "7.2" => j = k

\* C16: the record of a section whose title holds a known meter-type keyword (and which
\* the service answered with a JSON object) carries a type matched from the title,
\* whatever type the service returned; the header line '7.2 Digital Power Meter' with
\* clause 7.2 selected yields exactly one record of clause 7.2, of type
\* 'Digital Power Meter'
C16_TitleDecidesMeterType ==
    /\ \A k \in 1..Len(ex_responses) :
          ex_responses[k].kind = "json"
             => TitleDecides(TitleTypes(Lower(clause_positions[k].title)),
                             ex_requirements[JsonCount(k)])
    /\ HeaderScenario =>
          /\ Cardinality({ i \in 1..Len(ex_requirements) :
                              ex_requirements[i].clause_id = "7.2" }) = 1
          /\ \A i \in 1..Len(ex_requirements) :
                ex_requirements[i].clause_id = "7.2"
                   => ex_requirements[i].meter_type = "Digital Power Meter"

\* the header scenario with a service that called the section an Energy Meter
C16_Witness ==
    /\ HeaderScenario
    /\ \E k \in 1..Len(clause_positions) :
          /\ clause_positions[k].section_id = "7.2"
          /\ ex_responses[k].meter_type = <<"Energy Meter">>
          /\ ex_requirements[JsonCount(k)].meter_type = "Digital Power Meter"

(***************************************************************************)
(* Properties of the list search_meters returns.                           *)
(***************************************************************************)
\* C17: the list search_meters returns holds no two matches of the same model_number
C17_NoDuplicateModels ==
    rk_pc = "done" =>
        \A i, j \in 1..Len(returned) :
            returned[i].model_number = returned[j].model_number => i = j

\* C18: every match search_meters returns has a score between 0 and 100
C18_ScoreInRange ==
    rk_pc = "done" =>
        \A i \in 1..Len(returned) : 0 <= returned[i].score /\ returned[i].score <= ScoreCeiling

\* a match of the knowledge-base selection (product_id "KB_" + model)
IsKbMatch(match) == StartsWith(match.product_id, "KB_")

\* C19: the scores do not increase along the returned list, and of two matches of equal
\* score a database match stands before a knowledge-base match unless the re-rank call
\* was made
C19_BestFirst ==
    rk_pc = "done" =>
        \A i, j \in 1..Len(returned) :
            i < j =>
               /\ returned[i].score >= returned[j].score
               /\ (returned[i].score = returned[j].score
                      /\ IsKbMatch(returned[i]) /\ ~IsKbMatch(returned[j]))
                  => \E k \in 1..Len(calls) : calls[k] = "rerank"

(***************************************************************************)
(* Properties of the bounded-wait call.                                    *)
(***************************************************************************)
CallEnded == pt_pc \in {"returned", "raised"}

\* the worker finished before the timeout had passed
CompletedInTime == pt_thread = "finished" /\ pt_finished_at < pt_timeout

\* a TimeoutError is raised only after the timeout, for a worker that had not completed
\* within it; any other outcome is the completed worker's: its response returned, or the
\* exception it caught raised again; and the call has ended as soon as it has an outcome
CallOutcomeIsRight ==
    /\ pt_outcome = CallRaises("TimeoutError") =>
          /\ pt_pc = "raised"
          /\ pt_now >= pt_timeout
          /\ ~CompletedInTime
    /\ (CallEnded /\ pt_outcome # CallRaises("TimeoutError")) =>
          /\ pt_thread = "finished"
          /\ \/ pt_exception = <<>> /\ pt_result # <<>> /\ pt_outcome = CallReturns(pt_result)
             \/ pt_exception # <<>> /\ pt_outcome = CallRaises(pt_exception[1])
    /\ pt_outcome # NoOutcome <=> CallEnded

PassReturned ==
    pc = "done" /\ path = "batch" /\ IsObj(extracted) /\ IsObj(result) /\ ~HasKey(result, "error")

CorrectedPrefix == "CORRECTED: "

\* item after is item before with complies flipped from false to true and a justification
\* that begins with the prefix and goes on with a reason; every other field is as it was
FlippedWithReason(before, after) ==
    /\ ~OriginalComplies(before)
    /\ Get(after, "complies", JNull) = JBool(TRUE)
    /\ IsStr(Get(after, "justification", JNull))
    /\ StartsWith(Get(after, "justification", JNull).s, CorrectedPrefix)
    /\ Len(Get(after, "justification", JNull).s) > Len(CorrectedPrefix)
    /\ [k \in 1..Len(after.o) |-> after.o[k][1]] = [k \in 1..Len(before.o) |-> before.o[k][1]]
    /\ \A k \in 1..Len(before.o) :
          before.o[k][1] \notin {"complies", "justification"} => after.o[k] = before.o[k]

\* the pass took the items before to the items after
PassChangesOnlyByFlipping(before, after) ==
    /\ Len(after) = Len(before)
    /\ \A i \in 1..Len(before) :
          /\ after[i] = before[i] \/ FlippedWithReason(before[i], after[i])
          /\ OriginalComplies(before[i]) => after[i] = before[i]

\* C21: the correction pass changes an item only by flipping complies from false to true,
\* and a flipped item's justification begins with 'CORRECTED:' and states a reason; a
\* compliant item is left as it was, and the items are neither added to, removed nor
\* reordered
C21_PassOnlyFlipsToTrue ==
    PassReturned => PassChangesOnlyByFlipping(AnalysisItems(extracted), AnalysisItems(result))

\* the pass flipped one item of a report and left a compliant item of it as it was
C21_Witness ==
    /\ PassReturned
    /\ \E i, j \in 1..Len(AnalysisItems(extracted)) :
          /\ AnalysisItems(result)[i] # AnalysisItems(extracted)[i]
          /\ OriginalComplies(AnalysisItems(extracted)[j])
          /\ AnalysisItems(result)[j] = AnalysisItems(extracted)[j]

\* the service's response is, in its entirety, well-formed JSON
FullTextParses == ai_content # <<>> /\ JsonLoads(ai_content).ok

\* C22: a response that is in its entirety well-formed JSON is extracted as the parse of
\* the full response, never as an inner object of it
C22_FullParseFirst ==
    (extracted # JNull /\ FullTextParses) => extracted = JsonLoads(ai_content).v

\* C23: when the response was parsed into a report with compliance items, compare
\* returns these items and not an error result, whatever the requirement and spec_value
\* texts hold
C23_PassNeverFails ==
    (pc = "done" /\ path = "batch" /\ IsObj(extracted) /\ AnalysisItems(extracted) # <<>>) =>
        /\ IsObj(result) /\ ~HasKey(result, "error")
        /\ Len(ReturnedItems) = Len(AnalysisItems(extracted))

\* a reasoning call of the run failed
SomeCallFailed == \E k \in 1..Len(log) : log[k] = "raise"

\* the result tells its reader of a failure: an 'error' key, or an entry of potential_issues
SignalsFailure(report) ==
    \/ HasKey(report, "error")
    \/ /\ IsArr(Get(report, "potential_issues", JNull))
       /\ Get(report, "potential_issues", JNull).a # <<>>

\* C24: the combined result of a chunked run in which the reasoning call of a chunk
\* failed signals the failure by an 'error' key or an entry of potential_issues
C24_ChunkFailureIsSignalled ==
    (pc = "done" /\ path = "chunked" /\ SomeCallFailed) => SignalsFailure(result)

\* C30: in a finished chunked run every reasoning call but the last is followed by the
\* delay, also a call that failed, and no delay follows the last call
C30_DelayBetweenChunkCalls ==
    (pc = "done" /\ path = "chunked") =>
        /\ \A k \in 1..(Len(log) - 1) : log[k] # "sleep" => log[k + 1] = "sleep"
        /\ log # <<>> => log[Len(log)] # "sleep"

(***************************************************************************)
(* Properties of the holistic re-rank.                                     *)
(***************************************************************************)
\* the merged pool handed to the re-rank: database matches, then knowledge-base matches
MergedPool == database_matches \o kb_matches.items

\* the entries of the re-rank response that name a candidate of the pool
NamingEntries == SelectSeq(reranking.items, LAMBDA r : 0 <= r.index /\ r.index < Len(MergedPool))

\* the positions of the pool that no entry of the response names, in ascending order
RECURSIVE UnnamedFrom(_)
UnnamedFrom(i) ==
    IF i > Len(MergedPool) THEN <<>>
    ELSE (IF \E k \in 1..Len(reranking.items) : reranking.items[k].index = i - 1
          THEN <<>> ELSE <<i>>) \o UnnamedFrom(i + 1)

\* the final_score the response gives pool position i: that of the last entry naming it
NewScore(entries, i) ==
    entries[CHOOSE k \in 1..Len(entries) :
               /\ entries[k].index = i - 1
               /\ \A j \in (k + 1)..Len(entries) : entries[j].index # i - 1].final_score

SameCandidate(a, b) == a.product_id = b.product_id /\ a.model_number = b.model_number

\* the result is the named candidates in the response's order with their new scores,
\* followed by the candidates not named, unchanged and in the pool's order
NamedThenUnnamed(pool, entries, unnamed, matches) ==
    /\ Len(matches) = Len(entries) + Len(unnamed)
    /\ \A k \in 1..Len(entries) :
          /\ SameCandidate(matches[k], pool[entries[k].index + 1])
          /\ matches[k].score = NewScore(entries, entries[k].index + 1)
    /\ \A j \in 1..Len(unnamed) : matches[Len(entries) + j] = pool[unnamed[j]]
    /\ \A i \in 1..Len(pool) : \E p \in 1..Len(matches) : SameCandidate(matches[p], pool[i])

\* the re-rank call was made and its response parsed
RerankParsed == rk_pc = "done" /\ reranking.kind = "json"

RECURSIVE NextHeader(_, _)
NextHeader(lines, i) ==
    IF i + 1 > Len(lines) \/ SectionMatch(Strip(lines[i + 1])).found THEN i + 1
    ELSE NextHeader(lines, i + 1)

\* the lines from header line i up to, and not including, the next numbered header line
ClauseText(lines, i) == SubSeq(lines, i, NextHeader(lines, i) - 1)

\* C26: the source text of the record of a selected clause spans from the clause's header
\* line up to, and not including, the next numbered header line of the document, or to
\* the end of the document
C26_ContentEndsAtNextHeader ==
    \A k \in 1..Len(ex_responses) :
        ex_responses[k].kind = "json" =>
            ex_requirements[JsonCount(k)].content
                = ClauseText(document, clause_positions[k].idx + 1)

(***************************************************************************)
(* Properties of the knowledge-base lookup and of the records found.       *)
(***************************************************************************)
\* the model number is letters followed by digits and nothing else
LettersThenDigits(model) ==
    /\ SkipAlpha(model, 1) > 1
    /\ SkipAlpha(model, 1) <= Len(model)
    /\ SkipDigits(model, SkipAlpha(model, 1)) = Len(model) + 1

\* the series key of the family: the letters, the leading digit, "000_Series"
FamilyKey(model) == SubSeq(model, 1, SkipAlpha(model, 1)) \o "000_Series"

\* C27: the knowledge-base lookup of a model number made of letters followed by digits,
\* whose family's series record exists, returns a non-empty record by the series rule:
\* the specs of the matching variant, or the series data
C27_FamilySeriesIsFound ==
    ( /\ fd_pc = "done" /\ finder = "kb"
      /\ LettersThenDigits(model_number)
      /\ HasKey(KbData(catalogue), FamilyKey(model_number)) ) =>
        /\ ~NoRecord(found)
        /\ found = SeriesRule(Get(KbData(catalogue), FamilyKey(model_number), JNull),
                              model_number)

\* the top-level fields of a record
FieldNames(record) == { record.o[i][1] : i \in 1..Len(record.o) }

\* the records the three finders return for the model numbers on one catalogue
RecordsFound(cat) ==
    { FindMeterSpecs(KbData(cat), m) : m \in ModelInputs }
    \cup { FindMeter(LoadData(JObj(<<>>), cat, 1), m) : m \in ModelInputs }
    \cup { FindMeterSpecsSql(MetersTable(cat, 1, 1), m) : m \in ModelInputs }

\* C28: a non-empty record a finder returned has the same top-level fields as every
\* other non-empty record found on the same catalogue, whichever rule and store made it
C28_SameShape ==
    (fd_pc = "done" /\ ~NoRecord(found)) =>
        \A other \in RecordsFound(catalogue) :
            ~NoRecord(other) => FieldNames(other) = FieldNames(found)

(***************************************************************************)
(* Properties of the candidate pool.                                       *)
(***************************************************************************)
\* the rows the generic power/meter/quality/monitoring/energy filter selects
GenericPool == QueryRows(FallbackConditions)

\* C29: once _get_candidate_meters has run, the pool is non-empty whenever the generic
\* filter matches a product: a generated filter that selects no row is replaced by it
C29_PoolFallsBackToGenericFilter ==
    (rk_pc # "idle" /\ calls # <<>> /\ calls[1] = "query" /\ GenericPool # <<>>) =>
        candidates # <<>>

====
